---- MODULE Spec2Model ----
(***************************************************************************)
(* Verification model of notion_musicbrainz_sync.py: the title matcher,    *)
(* the relation merge, and the per-page sync handlers of                    *)
(* NotionMusicBrainzSync together with the MusicBrainzAPI memo tables.      *)
(*                                                                          *)
(* Text is modelled as a sequence of one-character strings, a Python dict   *)
(* as a TLA+ function whose DOMAIN is the set of keys present, and None as  *)
(* the value None.                                                          *)
(***************************************************************************)
EXTENDS Integers, Sequences, FiniteSets, TLC

VARIABLES
    tm,      \* title matcher run: the two titles and what the matcher computed
    mg,      \* relation merge run: page, fresh properties, merged and written
    mb,      \* MusicBrainzAPI._cache: per table, the entities memoized by MBID
    sy,      \* the page handler call in progress or finished, with what it did
    sr,      \* release scorer run: the releases given and what was computed
    cl,      \* MusicBrainzAPI request state: clock, last_request_time, attempts
    rn,      \* run_sync: the pages left to process and the counters
    lc       \* the Locations database and NotionMusicBrainzSync._location_cache

vars == <<tm, mg, mb, sy, sr, cl, rn, lc>>

\* the parts of the program a specification does not exercise
SrIdle == [pc |-> "off"]
ClIdle == [pc |-> "off"]
RnIdle == [pc |-> "off"]
LcIdle == [pc |-> "off"]

None == "None"

(***************************************************************************)
(* Bounds                                                                   *)
(***************************************************************************)
MaxTitleLen == 3

(***************************************************************************)
(* Characters                                                               *)
(***************************************************************************)
UpperSeq == <<"A","B","C","D","E","F","G","H","I","J","K","L","M",
              "N","O","P","Q","R","S","T","U","V","W","X","Y","Z">>
LowerSeq == <<"a","b","c","d","e","f","g","h","i","j","k","l","m",
              "n","o","p","q","r","s","t","u","v","w","x","y","z">>
DigitSeq == <<"0","1","2","3","4","5","6","7","8","9">>

Range(s) == { s[i] : i \in DOMAIN s }

\* the class a-zA-Z0-9 of the regular expression
AsciiAlnum == Range(UpperSeq) \cup Range(LowerSeq) \cup Range(DigitSeq)

IsAsciiAlnum(c) == c \in AsciiAlnum

\* the class \s of the regular expression, and the separators of str.split()
IsSpace(c) == c \in {" ", "\t"}

\* str.lower() on the capitals the model uses (the accented capital has a
\* lower-case form too)
LowerOf ==
    [c \in Range(UpperSeq) \cup {"É"} |->
        IF c = "É" THEN "é"
        ELSE LowerSeq[CHOOSE i \in DOMAIN UpperSeq : UpperSeq[i] = c]]

LowerChar(c) == IF c \in DOMAIN LowerOf THEN LowerOf[c] ELSE c

\* re.sub(r'[^a-zA-Z0-9\s]', ' ', title)
SubSpecial(title) ==
    [i \in DOMAIN title |->
        IF IsAsciiAlnum(title[i]) \/ IsSpace(title[i]) THEN title[i] ELSE " "]

\* str.lower()
LowerStr(s) == [i \in DOMAIN s |-> LowerChar(s[i])]

\* str.split(): the maximal runs of non-whitespace characters, in order
RECURSIVE SplitFrom(_, _, _)
SplitFrom(s, i, cur) ==
    IF i > Len(s)
    THEN IF cur = <<>> THEN <<>> ELSE <<cur>>
    ELSE IF IsSpace(s[i])
         THEN IF cur = <<>>
              THEN SplitFrom(s, i + 1, <<>>)
              ELSE <<cur>> \o SplitFrom(s, i + 1, <<>>)
         ELSE SplitFrom(s, i + 1, Append(cur, s[i]))

Split(s) == SplitFrom(s, 1, <<>>)

\* a plausible slip: the title is split without being lower-cased
normalize_title_no_lower(title) ==
    IF title = <<>> THEN <<>> ELSE Split(SubSpecial(title))

\* a plausible slip: special characters are deleted instead of made separators
normalize_title_delete_special(title) ==
    IF title = <<>> THEN <<>>
    ELSE Split(LowerStr(SelectSeq(title, LAMBDA c : IsAsciiAlnum(c) \/ IsSpace(c))))

\* NotionMusicBrainzSync._normalize_title_for_matching
normalize_title_for_matching(title) ==
    IF title = <<>> THEN <<>> ELSE Split(LowerStr(SubSpecial(title)))

\* a matcher that refuses titles without words
titles_match_with_words(title1, title2) ==
    /\ normalize_title_for_matching(title1) # <<>>
    /\ normalize_title_for_matching(title1) = normalize_title_for_matching(title2)

\* NotionMusicBrainzSync._titles_match_exactly
titles_match_exactly(title1, title2) ==
    normalize_title_for_matching(title1) = normalize_title_for_matching(title2)

(***************************************************************************)
(* Titles                                                                   *)
(***************************************************************************)
TitleAlphabet == {"a", "A", " ", "-"}

RECURSIVE SeqsUpTo(_, _)
SeqsUpTo(S, n) ==
    IF n = 0 THEN {<<>>}
    ELSE LET shorter == SeqsUpTo(S, n - 1)
         IN  shorter \cup { Append(s, c) : s \in shorter, c \in S }

AbbeyRoadPunct  == <<"A","b","b","e","y","-","R","o","a","d","!">>
AbbeyRoadLower  == <<"a","b","b","e","y"," ","r","o","a","d">>
AbbeyRoad       == <<"A","b","b","e","y"," ","R","o","a","d">>
AbbeyRoads      == <<"A","b","b","e","y"," ","R","o","a","d","s">>

\* a title whose letters are all outside ASCII (standing for a title in
\* another script), and a punctuation-only title
Micro     == <<"µ","µ">>
Ellipsis  == <<".",".",".">>

NamedTitles == {AbbeyRoadPunct, AbbeyRoadLower, AbbeyRoad, AbbeyRoads,
                <<"É","1">>, <<"a","\t","7">>, <<"b">>, <<"B","-","1">>,
                Micro, Ellipsis}

Titles == SeqsUpTo(TitleAlphabet, MaxTitleLen) \cup NamedTitles

(***************************************************************************)
(* The title matcher applied to a pair of titles                            *)
(***************************************************************************)
TmInit ==
    \E a \in Titles, b \in Titles :
        tm = [pc |-> "start", title1 |-> a, title2 |-> b,
              words1 |-> <<>>, words2 |-> <<>>, result |-> FALSE, swapped |-> FALSE]

\* one evaluation of _titles_match_exactly(title1, title2) and of the call
\* with the arguments exchanged
TitlesMatch ==
    /\ tm.pc = "start"
    /\ tm' = [tm EXCEPT !.pc = "done",
                        !.words1 = normalize_title_for_matching(tm.title1),
                        !.words2 = normalize_title_for_matching(tm.title2),
                        !.result = titles_match_exactly(tm.title1, tm.title2),
                        !.swapped = titles_match_exactly(tm.title2, tm.title1)]
    /\ UNCHANGED <<mg, mb, sy, sr, cl, rn, lc>>

(***************************************************************************)
(* Property sets and the relation merge                                     *)
(*                                                                          *)
(* A property set maps the keys present to values; a relation value is      *)
(* [type |-> "relation", relation |-> <<page ids>>], any other value is     *)
(* [type |-> "rich_text", text |-> ...].                                    *)
(***************************************************************************)
PageIds == {"A", "B", "C"}

Rel(ids) == [type |-> "relation", relation |-> ids]
Txt(t)   == [type |-> "rich_text", text |-> t]

\* props.get(key, {}).get('relation', [])
RelationOf(props, key) ==
    IF key \in DOMAIN props /\ props[key].type = "relation"
    THEN props[key].relation ELSE <<>>

\* {rel.get('id') for rel in relations if rel.get('id')}
RelationIds(props, key) == Range(RelationOf(props, key))

\* the lists a Python set of ids may be iterated as: every order, each id once
Orderings(S) ==
    { q \in [1..Cardinality(S) -> S] : \A i, j \in DOMAIN q : q[i] = q[j] => i = j }

\* a plausible slip: the artists branch is taken for every database type
relation_property_ids_none(database_type) == {}

\* _merge_relations: the relation properties merged for a database type
relation_property_ids(database_type) ==
    CASE database_type = "artists" -> {}
      [] database_type = "albums"  -> {"artist", "songs", "label"}
      [] database_type = "songs"   -> {"artist", "album"}
      [] OTHER                     -> {}

\* a plausible slip: the fresh targets replace the existing ones
merged_relation_ids_replace(existing_relation_ids, new_relation_ids) ==
    new_relation_ids

\* _merge_relations: merged_relation_ids = existing_relation_ids | new_relation_ids
merged_relation_ids(existing_relation_ids, new_relation_ids) ==
    existing_relation_ids \cup new_relation_ids

\* the keys _merge_relations rewrites: the configured relation properties of
\* the database type that new_properties holds
MergedKeys(new_properties, database_type, configured) ==
    { k \in relation_property_ids(database_type) \cap configured :
        k \in DOMAIN new_properties }

\* one list per merged key, in any of the orders a Python set may be read in
MergedLists(keys, page, new_properties) ==
    LET lists(k) == Orderings(merged_relation_ids(RelationIds(page, k),
                                                  RelationIds(new_properties, k)))
    IN  { c \in [keys -> UNION { lists(k) : k \in keys }] :
            \A k \in keys : c[k] \in lists(k) }

\* a plausible slip: a relation property missing from new_properties is
\* written as an empty relation
merge_relations_clears_absent(page, new_properties, database_type, configured) ==
    LET keys == MergedKeys(new_properties, database_type, configured)
        all  == relation_property_ids(database_type) \cap configured
    IN  { [k \in DOMAIN new_properties \cup all |->
              IF k \in keys THEN Rel(ch[k])
              ELSE IF k \in DOMAIN new_properties THEN new_properties[k]
              ELSE Rel(<<>>)] :
          ch \in MergedLists(keys, page, new_properties) }

\* _merge_relations(page, new_properties, database_type): every property set
\* it may return (the order of a merged relation list is that of a Python set)
merge_relations(page, new_properties, database_type, configured) ==
    LET keys == MergedKeys(new_properties, database_type, configured)
    IN  { [k \in DOMAIN new_properties |->
              IF k \in keys THEN Rel(ch[k]) ELSE new_properties[k]] :
          ch \in MergedLists(keys, page, new_properties) }

\* NotionAPI.update_page as the page store applies it: the properties given
\* replace the page's values under their keys, the other keys keep theirs
update_page(page, properties) ==
    [k \in DOMAIN page \cup DOMAIN properties |->
        IF k \in DOMAIN properties THEN properties[k] ELSE page[k]]

(***************************************************************************)
(* The merge applied to a page and a fresh property set, then written       *)
(***************************************************************************)
DatabaseTypes == {"artists", "albums", "songs"}

\* the relation-valued fields a formatter can emit, per database type
RelationFields(database_type) ==
    CASE database_type = "artists" -> {"area", "born_in"}
      [] database_type = "albums"  -> {"artist", "songs", "label"}
      [] database_type = "songs"   -> {"artist", "album"}
      [] database_type = "labels"  -> {"area"}

ExistingChoices == {<<>>, <<"A", "B">>}
FreshChoices    == {None, <<>>, <<"B", "C">>, <<"B", "B">>}
TextChoices     == {None, "new"}

\* the property set holding exactly the keys whose choice is not None
PropsOf(relChoice, textChoice) ==
    [k \in { f \in DOMAIN relChoice : relChoice[f] # None } \cup
           { f \in DOMAIN textChoice : textChoice[f] # None } |->
        IF k \in DOMAIN relChoice THEN Rel(relChoice[k]) ELSE Txt(textChoice[k])]

MgIdle == [pc |-> "off"]

MgInit ==
    \E db \in DatabaseTypes :
    \E configured \in SUBSET RelationFields(db) :
    \E ex \in [RelationFields(db) -> ExistingChoices] :
    \E fr \in [configured -> FreshChoices] :
    \E tx \in [{"title"} -> TextChoices] :
        mg = [pc |-> "start", database_type |-> db, configured |-> configured,
              page |-> PropsOf(ex, [k \in {"title"} |-> "old"]),
              new_properties |-> PropsOf(fr, tx),
              merged |-> <<>>, after |-> <<>>, ok |-> FALSE]

TmIdle == [pc |-> "off"]

\* notion_props = self._merge_relations(page, notion_props, database_type)
MergeRelations ==
    /\ mg.pc = "start"
    /\ \E m \in merge_relations(mg.page, mg.new_properties, mg.database_type,
                                mg.configured) :
          mg' = [mg EXCEPT !.pc = "merged", !.merged = m]
    /\ UNCHANGED <<tm, mb, sy, sr, cl, rn, lc>>

\* self.notion.update_page(page_id, notion_props, ...): accepted or rejected
UpdatePage ==
    /\ mg.pc = "merged"
    /\ \E accepted \in BOOLEAN :
          mg' = [mg EXCEPT !.pc = "written", !.ok = accepted,
                           !.after = IF accepted
                                     THEN update_page(mg.page, mg.merged)
                                     ELSE mg.page]
    /\ UNCHANGED <<tm, mb, sy, sr, cl, rn, lc>>

(***************************************************************************)
(* The remote catalogue (MusicBrainz), immutable from the program's side    *)
(***************************************************************************)
Radiohead        == <<"R","a","d","i","o","h","e","a","d">>
RadioheadTribute == Radiohead \o <<" ","T","r","i","b","u","t","e">>
XL               == <<"X","L">>
XLRecordings     == <<"X","L"," ","R","e","c","o","r","d","i","n","g","s">>

ArtistCatalogue ==
    [i \in {"ar1", "ar2"} |->
        IF i = "ar1"
        THEN [id |-> "ar1", name |-> Radiohead, area |-> "UK", begin_area |-> None]
        ELSE [id |-> "ar2", name |-> RadioheadTribute, area |-> None,
              begin_area |-> "Oxford"]]

LabelCatalogue ==
    [i \in {"lb1", "lb2"} |->
        IF i = "lb1"
        THEN [id |-> "lb1", name |-> XL, area |-> "UK"]
        ELSE [id |-> "lb2", name |-> XLRecordings, area |-> None]]

Creep      == <<"C","r","e","e","p">>
CreepPunct == <<"c","r","e","e","p","!">>
Creeps     == <<"C","r","e","e","p","s">>
PabloHoney == <<"P","a","b","l","o"," ","H","o","n","e","y">>

PabloHoneyPunct == <<"p","a","b","l","o","-","h","o","n","e","y","!">>
PabloHoneyLive  == PabloHoney \o <<" ","L","i","v","e">>

\* a date is <<>> (none), <<year>>, <<year, month>> or <<year, month, day>>
NoDate == <<>>

MaxFillers == 10

\* MBIDs of the releases f1, f2, ... that share the album's title, are US
\* albums of 1993 and hold rc3 only
FillerIds == <<"f1", "f2", "f3", "f4", "f5", "f6", "f7", "f8", "f9", "f10", "f11", "f12">>

Filler(i) ==
    [id |-> FillerIds[i], title |-> PabloHoney, country |-> "US", date |-> <<1993>>,
     events |-> <<>>, group_type |-> "Album", group_primary_type |-> "Album", group_date |-> NoDate,
     tracks |-> {"rc3"}]

\* rl1: the British album holding rc1 and rc3; rl2: a release holding rc1 whose
\* country and date are on its first release event; rl3: another title; rl4: a
\* US album with no date anywhere
ReleaseCatalogue ==
    [i \in {"rl1", "rl2", "rl3", "rl4"} \cup Range(FillerIds) |->
        CASE i = "rl1" ->
                [id |-> i, title |-> PabloHoney, country |-> "GB",
                 date |-> <<1993, 2, 22>>, events |-> <<>>, group_type |-> "Album", group_primary_type |-> "Album",
                 group_date |-> <<1993>>, tracks |-> {"rc1", "rc3"}]
          [] i = "rl2" ->
                [id |-> i, title |-> PabloHoneyPunct, country |-> None,
                 date |-> NoDate, events |-> <<[area |-> "us", date |-> <<1993, 4>>]>>,
                 group_type |-> "album", group_primary_type |-> "Album", group_date |-> <<1993>>, tracks |-> {"rc1"}]
          [] i = "rl3" ->
                [id |-> i, title |-> PabloHoneyLive, country |-> "US",
                 date |-> <<1990>>, events |-> <<>>, group_type |-> "Album", group_primary_type |-> "Album",
                 group_date |-> NoDate, tracks |-> {"rc1", "rc3"}]
          [] i = "rl4" ->
                [id |-> i, title |-> PabloHoney, country |-> "US",
                 date |-> NoDate, events |-> <<>>, group_type |-> "Album",
                 group_primary_type |-> "Album", group_date |-> NoDate, tracks |-> {"rc1"}]
          [] OTHER ->
                Filler(CHOOSE n \in DOMAIN FillerIds : FillerIds[n] = i)]

\* the releases MusicBrainz holds, in the order it lists them
AllReleaseIds == <<"rl1", "rl2", "rl3", "rl4">> \o FillerIds

\* the release list of a recording's detail record: the releases it is a track
\* of, without their track lists
ReleasesOf(recording_id) ==
    LET on == SelectSeq(AllReleaseIds,
                        LAMBDA r : recording_id \in ReleaseCatalogue[r].tracks)
    IN  [i \in DOMAIN on |-> [ReleaseCatalogue[on[i]] EXCEPT !.tracks = {}]]

\* rc1 and rc3 are tracks of the release rl1, rc2 is another recording of the
\* same title that is on no release and has no artist credit
RecordingCatalogue ==
    [i \in {"rc1", "rc2", "rc3"} |->
        [id |-> i,
         title |-> IF i = "rc1" THEN Creep ELSE IF i = "rc2" THEN CreepPunct ELSE Creeps,
         artist |-> IF i = "rc2" THEN None ELSE "Radiohead",
         releases |-> ReleasesOf(i)]]

GoneId == "gone"

Catalogue(table) ==
    CASE table = "artists"    -> ArtistCatalogue
      [] table = "labels"     -> LabelCatalogue
      [] table = "recordings" -> RecordingCatalogue
      [] table = "releases"   -> ReleaseCatalogue

\* the location page find-or-create answers for an area name
LocationPage(name) == IF name = "UK" THEN "B" ELSE "C"

(***************************************************************************)
(* MusicBrainzAPI: memoized detail fetches                                  *)
(***************************************************************************)
MbInit ==
    [artists |-> <<>>, labels |-> <<>>, releases |-> <<>>, recordings |-> <<>>,
     cover_art |-> <<>>]

NoData == [id |-> None]

\* a plausible slip: the fetched entity is returned but not stored
Memoize_nothing(cache, table, mbid) == cache

Memoize(cache, table, mbid) ==
    [cache EXCEPT ![table] =
        [k \in DOMAIN cache[table] \cup {mbid} |->
            IF k = mbid THEN Catalogue(table)[mbid] ELSE cache[table][k]]]

\* MusicBrainzAPI.get_artist / get_label: the memoized entity, else one request
\* whose answer is memoized; nothing when the request fails (the MBID is in
\* down) or the catalogue does not hold the MBID
get_entity(table, mbid, cache, down) ==
    IF mbid \in DOMAIN cache[table]
    THEN [found |-> TRUE, data |-> cache[table][mbid], requests |-> <<>>,
          cache |-> cache]
    ELSE IF mbid \in DOMAIN Catalogue(table) /\ mbid \notin down
    THEN [found |-> TRUE, data |-> Catalogue(table)[mbid],
          requests |-> <<<<"get", table, mbid>>>>,
          cache |-> Memoize(cache, table, mbid)]
    ELSE [found |-> FALSE, data |-> NoData,
          requests |-> <<<<"get", table, mbid>>>>, cache |-> cache]

(***************************************************************************)
(* Formatters of artist and label pages                                     *)
(***************************************************************************)
FunUnion(f, g) ==
    [k \in DOMAIN f \cup DOMAIN g |-> IF k \in DOMAIN g THEN g[k] ELSE f[k]]

Single(k, v) == [x \in {k} |-> v]

Empty == <<>>

\* _find_or_create_location_page as the formatter sees it: loc is
\* "unconfigured" (no locations_db_id), "found" or "failed" (page id None)
location_page_id(name, loc) == IF loc = "found" THEN LocationPage(name) ELSE None

\* a plausible slip: born-in is left out when the artist has no begin-area
format_artist_properties_no_clear(artist_data, loc) ==
    LET base == FunUnion(Single("title", Txt(artist_data.name)),
                         Single("musicbrainz_id", Txt(artist_data.id)))
        area == IF artist_data.area # None /\ loc # "unconfigured"
                   /\ location_page_id(artist_data.area, loc) # None
                THEN Single("area", Rel(<<location_page_id(artist_data.area, loc)>>))
                ELSE Empty
        born == IF loc = "unconfigured" THEN Empty
                ELSE IF artist_data.begin_area # None
                     /\ location_page_id(artist_data.begin_area, loc) # None
                THEN Single("born_in",
                            Rel(<<location_page_id(artist_data.begin_area, loc)>>))
                ELSE Empty
    IN  FunUnion(FunUnion(base, area), born)

\* _format_artist_properties: title, MBID, the area relation and born-in
format_artist_properties(artist_data, loc) ==
    LET base == FunUnion(Single("title", Txt(artist_data.name)),
                         Single("musicbrainz_id", Txt(artist_data.id)))
        area == IF artist_data.area # None /\ loc # "unconfigured"
                   /\ location_page_id(artist_data.area, loc) # None
                THEN Single("area", Rel(<<location_page_id(artist_data.area, loc)>>))
                ELSE Empty
        born == IF loc = "unconfigured" THEN Empty
                ELSE IF artist_data.begin_area # None
                THEN IF location_page_id(artist_data.begin_area, loc) # None
                     THEN Single("born_in",
                                 Rel(<<location_page_id(artist_data.begin_area, loc)>>))
                     ELSE Empty
                ELSE Single("born_in", Rel(<<>>))
    IN  FunUnion(FunUnion(base, area), born)

\* _format_label_properties: title, MBID and the area relation
format_label_properties(label_data, loc) ==
    LET base == FunUnion(Single("title", Txt(label_data.name)),
                         Single("musicbrainz_id", Txt(label_data.id)))
        area == IF label_data.area # None /\ loc # "unconfigured"
                   /\ location_page_id(label_data.area, loc) # None
                THEN Single("area", Rel(<<location_page_id(label_data.area, loc)>>))
                ELSE Empty
    IN  FunUnion(base, area)

(***************************************************************************)
(* sync_artist_page and sync_label_page                                     *)
(*                                                                          *)
(* page = [title, mbid, props]: the title (<<>> when the page has none),    *)
(* the stored MBID (None when empty) and the page's current properties.     *)
(* env = [search, down, loc, accepted]: what the outside answers during the *)
(* call: the search results, the MBIDs whose detail request fails, the      *)
(* location find-or-create outcome, whether the page update is accepted.    *)
(***************************************************************************)
NoTitle == <<>>

Outcome(result, searched, data, new_properties, wrote, written, after, requests, cache) ==
    [result |-> result, searched |-> searched, data_id |-> data.id,
     new_properties |-> new_properties, wrote |-> wrote, written |-> written,
     after |-> after, requests |-> requests, cache |-> cache, ranked |-> <<>>,
     writes |-> IF wrote THEN 1 ELSE 0]

\* a return before anything is formatted: None (skip) or False (failure)
Returned(result, searched, page, requests, cache) ==
    Outcome(result, searched, NoData, Empty, FALSE, Empty, page.props, requests, cache)

\* a plausible slip: a rejected update is sent a second time
Written_retry(searched, data, new_properties, notion_props, page, env, requests, cache) ==
    [Outcome(IF env.accepted THEN "success" ELSE "failure", searched, data,
             new_properties, TRUE, notion_props,
             IF env.accepted THEN update_page(page.props, notion_props) ELSE page.props,
             requests, cache)
        EXCEPT !.writes = IF env.accepted THEN 1 ELSE 2]

\* self.notion.update_page(page_id, notion_props, ...) and the handler's result
Written(searched, data, new_properties, notion_props, page, env, requests, cache) ==
    Outcome(IF env.accepted THEN "success" ELSE "failure", searched, data,
            new_properties, TRUE, notion_props,
            IF env.accepted THEN update_page(page.props, notion_props) ELSE page.props,
            requests, cache)

\* a plausible slip: a page with a stored MBID is skipped before it is fetched
ResolveFirstResult_skip_unfetched(table, page, force_all, cache, env) ==
    LET g1 == IF page.mbid # None /\ force_all
              THEN get_entity(table, page.mbid, cache, env.down)
              ELSE [found |-> FALSE, data |-> NoData, requests |-> <<>>,
                    cache |-> cache]
        sreq == g1.requests \o <<<<"search", table, "">>>>
    IN  IF page.mbid # None /\ ~force_all
        THEN [status |-> "skip", searched |-> FALSE, data |-> NoData,
              requests |-> <<>>, cache |-> cache]
        ELSE IF g1.found
        THEN [status |-> "resolved", searched |-> FALSE, data |-> g1.data,
              requests |-> g1.requests, cache |-> g1.cache]
        ELSE IF env.search = <<>>
        THEN [status |-> "failure", searched |-> TRUE, data |-> NoData,
              requests |-> sreq, cache |-> g1.cache]
        ELSE LET g2 == get_entity(table, env.search[1], g1.cache, env.down)
             IN  [status |-> IF g2.found THEN "resolved" ELSE "failure",
                  searched |-> TRUE, data |-> g2.data,
                  requests |-> sreq \o g2.requests, cache |-> g2.cache]

\* the part the two handlers share: the stored MBID is fetched first; the page
\* is skipped when it resolves and force_all is off; otherwise the name is
\* searched and the first result's detail is fetched
ResolveFirstResult(table, page, force_all, cache, env) ==
    LET g1 == IF page.mbid # None
              THEN get_entity(table, page.mbid, cache, env.down)
              ELSE [found |-> FALSE, data |-> NoData, requests |-> <<>>,
                    cache |-> cache]
        sreq == g1.requests \o <<<<"search", table, "">>>>
    IN  IF g1.found /\ ~force_all
        THEN [status |-> "skip", searched |-> FALSE, data |-> NoData,
              requests |-> g1.requests, cache |-> g1.cache]
        ELSE IF g1.found
        THEN [status |-> "resolved", searched |-> FALSE, data |-> g1.data,
              requests |-> g1.requests, cache |-> g1.cache]
        ELSE IF env.search = <<>>
        THEN [status |-> "failure", searched |-> TRUE, data |-> NoData,
              requests |-> sreq, cache |-> g1.cache]
        ELSE LET g2 == get_entity(table, env.search[1], g1.cache, env.down)
             IN  [status |-> IF g2.found THEN "resolved" ELSE "failure",
                  searched |-> TRUE, data |-> g2.data,
                  requests |-> sreq \o g2.requests, cache |-> g2.cache]

\* sync_artist_page(page, force_all): every outcome the call may have
sync_artist_page(page, force_all, cache, env) ==
    IF page.title = NoTitle
    THEN { Returned("skip", FALSE, page, <<>>, cache) }
    ELSE LET r == ResolveFirstResult("artists", page, force_all, cache, env)
         IN  IF r.status = "skip"
             THEN { Returned("skip", FALSE, page, r.requests, r.cache) }
             ELSE IF r.status = "failure"
             THEN { Returned("failure", r.searched, page, r.requests, r.cache) }
             ELSE LET new == format_artist_properties(r.data, env.loc)
                  IN  { Written(r.searched, r.data, new, m, page, env,
                                r.requests, r.cache) :
                        m \in merge_relations(page.props, new, "artists",
                                              RelationFields("artists")) }

\* sync_label_page(page, force_all): the formatted properties are written as
\* they are, _merge_relations is not called
sync_label_page(page, force_all, cache, env) ==
    IF page.title = NoTitle
    THEN { Returned("skip", FALSE, page, <<>>, cache) }
    ELSE LET r == ResolveFirstResult("labels", page, force_all, cache, env)
         IN  IF r.status = "skip"
             THEN { Returned("skip", FALSE, page, r.requests, r.cache) }
             ELSE IF r.status = "failure"
             THEN { Returned("failure", r.searched, page, r.requests, r.cache) }
             ELSE LET new == format_label_properties(r.data, env.loc)
                  IN  { Written(r.searched, r.data, new, new, page, env,
                                r.requests, r.cache) }

(***************************************************************************)
(* sync_song_page                                                           *)
(*                                                                          *)
(* page also holds album: the MBID stored on the linked album page (None    *)
(* when no album is linked or the album page has none); env also holds      *)
(* pages_ok (the linked pages can be read) and what the formatter's         *)
(* find-or-create calls answer (artist_page_ids, album_page_id).            *)
(* A search result is a stub [id, title]; id is None for a stub without one.*)
(***************************************************************************)
\* _recording_appears_on_album(recording_id, album_mbid)
recording_appears_on_album(recording_id, album_mbid, cache, down) ==
    LET g == get_entity("releases", album_mbid, cache, down)
    IN  [appears |-> g.found /\ recording_id \in g.data.tracks,
         requests |-> g.requests, cache |-> g.cache]

\* a plausible slip: the first search result is taken when none matches
RECURSIVE find_best_match_fallback(_, _, _, _, _, _, _)
find_best_match_fallback(title, search_results, i, album_mbid, cache, down, requests) ==
    IF i > Len(search_results)
    THEN [found |-> search_results # <<>>,
          best |-> IF search_results # <<>> THEN search_results[1]
                   ELSE [id |-> None, title |-> <<>>],
          requests |-> requests, cache |-> cache]
    ELSE LET result == search_results[i]
         IN  IF ~titles_match_exactly(title, result.title)
             THEN find_best_match_fallback(title, search_results, i + 1, album_mbid,
                                           cache, down, requests)
             ELSE IF album_mbid # None /\ result.id # None
             THEN LET a == recording_appears_on_album(result.id, album_mbid, cache, down)
                  IN  IF ~a.appears
                      THEN find_best_match_fallback(title, search_results, i + 1,
                                album_mbid, a.cache, down, requests \o a.requests)
                      ELSE [found |-> TRUE, best |-> result,
                            requests |-> requests \o a.requests, cache |-> a.cache]
             ELSE [found |-> TRUE, best |-> result, requests |-> requests,
                   cache |-> cache]

\* a plausible slip: the album check is skipped
RECURSIVE find_best_match_no_album_check(_, _, _, _, _, _, _)
find_best_match_no_album_check(title, search_results, i, album_mbid, cache, down, requests) ==
    IF i > Len(search_results)
    THEN [found |-> FALSE, best |-> [id |-> None, title |-> <<>>],
          requests |-> requests, cache |-> cache]
    ELSE IF ~titles_match_exactly(title, search_results[i].title)
    THEN find_best_match_no_album_check(title, search_results, i + 1, album_mbid,
                                        cache, down, requests)
    ELSE [found |-> TRUE, best |-> search_results[i], requests |-> requests,
          cache |-> cache]

\* sync_song_page: the loop over search_results from index i on; the first
\* result with an exactly matching title that, when album_mbid is known and the
\* result has an id, appears on that album
RECURSIVE find_best_match(_, _, _, _, _, _, _)
find_best_match(title, search_results, i, album_mbid, cache, down, requests) ==
    IF i > Len(search_results)
    THEN [found |-> FALSE, best |-> [id |-> None, title |-> <<>>],
          requests |-> requests, cache |-> cache]
    ELSE LET result == search_results[i]
         IN  IF ~titles_match_exactly(title, result.title)
             THEN find_best_match(title, search_results, i + 1, album_mbid,
                                  cache, down, requests)
             ELSE IF album_mbid # None /\ result.id # None
             THEN LET a == recording_appears_on_album(result.id, album_mbid, cache, down)
                  IN  IF ~a.appears
                      THEN find_best_match(title, search_results, i + 1, album_mbid,
                                           a.cache, down, requests \o a.requests)
                      ELSE [found |-> TRUE, best |-> result,
                            requests |-> requests \o a.requests, cache |-> a.cache]
             ELSE [found |-> TRUE, best |-> result, requests |-> requests,
                   cache |-> cache]

\* _format_song_properties: title, MBID, the artist relation when artist pages
\* were found or created, the album relation when an album page was
format_song_properties(recording_data, artist_page_ids, album_page_id) ==
    LET base == FunUnion(Single("title", Txt(recording_data.title)),
                         Single("musicbrainz_id", Txt(recording_data.id)))
        artist == IF artist_page_ids # <<>>
                  THEN Single("artist", Rel(artist_page_ids)) ELSE Empty
        album == IF album_page_id # None
                 THEN Single("album", Rel(<<album_page_id>>)) ELSE Empty
    IN  FunUnion(FunUnion(base, artist), album)

\* the album MBID the handler obtains from the linked album page
album_mbid_of(page, env) == IF env.pages_ok THEN page.album ELSE None

\* the handler from the point where recording_data is known
SongTail(searched, data, page, env, requests, cache) ==
    LET new == format_song_properties(data, env.artist_page_ids, env.album_page_id)
    IN  { Written(searched, data, new, m, page, env, requests, cache) :
          m \in merge_relations(page.props, new, "songs", RelationFields("songs")) }

\* sync_song_page(page, force_all): every outcome the call may have
sync_song_page(page, force_all, cache, env) ==
    IF page.title = NoTitle
    THEN { Returned("skip", FALSE, page, <<>>, cache) }
    ELSE
    LET album_mbid == album_mbid_of(page, env)
        g1 == IF page.mbid # None
              THEN get_entity("recordings", page.mbid, cache, env.down)
              ELSE [found |-> FALSE, data |-> NoData, requests |-> <<>>,
                    cache |-> cache]
        sreq == g1.requests \o <<<<"search", "recordings", "">>>>
    IN  IF g1.found /\ ~force_all
        THEN { Returned("skip", FALSE, page, g1.requests, g1.cache) }
        ELSE IF g1.found
        THEN SongTail(FALSE, g1.data, page, env, g1.requests, g1.cache)
        ELSE IF env.search = <<>>
        THEN { Returned("failure", TRUE, page, sreq, g1.cache) }
        ELSE LET b == find_best_match(page.title, env.search, 1, album_mbid,
                                      g1.cache, env.down, sreq)
             IN  IF ~b.found \/ b.best.id = None
                 THEN { Returned("failure", TRUE, page, b.requests, b.cache) }
                 ELSE LET g2 == get_entity("recordings", b.best.id, b.cache, env.down)
                      IN  IF ~g2.found
                          THEN { Returned("failure", TRUE, page,
                                          b.requests \o g2.requests, g2.cache) }
                          ELSE SongTail(TRUE, g2.data, page, env,
                                        b.requests \o g2.requests, g2.cache)

(***************************************************************************)
(* sync_album_page                                                          *)
(*                                                                          *)
(* page also holds what the linked pages say: artist_mbid, song_mbids and   *)
(* song_titles.  env also holds the answers of the candidate queries:       *)
(* primary (the releases of the artist or of the recording), arid_fails     *)
(* (the artist query raises), recording_search, fallback (search_releases), *)
(* and stub_media (search results carry their track lists).  An outcome     *)
(* also holds ranked: the MBIDs of top_releases after its sort.             *)
(***************************************************************************)
UpperCountry(c) == IF c = "us" THEN "US" ELSE IF c = "gb" THEN "GB" ELSE c

LowerType(t) == IF t = "Album" THEN "album" ELSE IF t = "Single" THEN "single" ELSE t

LastDay(month) ==
    IF month \in {1, 3, 5, 7, 8, 10, 12} THEN 31
    ELSE IF month \in {4, 6, 9, 11} THEN 30 ELSE 28

FarFuture == <<9999, 12, 31>>

ScoreUS == 100
ScoreAlbum == 50
BonusContains == 1000
TopCandidates == 10

\* a < b for two YYYY-MM-DD strings
DateLess(a, b) ==
    \/ a[1] < b[1]
    \/ a[1] = b[1] /\ a[2] < b[2]
    \/ a[1] = b[1] /\ a[2] = b[2] /\ a[3] < b[3]

\* _score_release_for_song(release): (score, date).  The type is read from the
\* release-group's key 'type' (group_type); the key 'primary-type'
\* (group_primary_type) is not looked at.  Dates are the zero-padded strings
\* MusicBrainz gives, held as tuples of numbers.
score_release_for_song(release) ==
    LET own == IF release.country # None THEN UpperCountry(release.country) ELSE None
        country == IF own = None /\ release.events # <<>>
                   THEN UpperCountry(release.events[1].area) ELSE own
        d1 == release.date
        d2 == IF d1 = NoDate /\ release.events # <<>> THEN release.events[1].date ELSE d1
        date_str == IF d2 = NoDate THEN release.group_date ELSE d2
        release_date ==
            CASE Len(date_str) = 0 -> FarFuture
              [] Len(date_str) = 1 -> <<date_str[1], 12, 31>>
              [] Len(date_str) = 2 -> <<date_str[1], date_str[2], LastDay(date_str[2])>>
              [] OTHER -> date_str
    IN  [score |-> (IF country = "US" THEN ScoreUS ELSE 0)
                   + (IF LowerType(release.group_type) = "album" THEN ScoreAlbum ELSE 0),
         date |-> release_date]

\* a plausible slip: holding any one of the recordings is enough
release_contains_any_recording(release_data, recording_mbids, recording_titles) ==
    IF recording_mbids = <<>> /\ recording_titles = <<>> THEN TRUE
    ELSE \/ Range(recording_mbids) \cap release_data.tracks # {}
         \/ \E t \in Range(recording_titles), r \in release_data.tracks :
               normalize_title_for_matching(t) =
                   normalize_title_for_matching(RecordingCatalogue[r].title)

\* _release_contains_recordings(release_data, recording_mbids, recording_titles)
release_contains_recordings(release_data, recording_mbids, recording_titles) ==
    IF recording_mbids = <<>> /\ recording_titles = <<>> THEN TRUE
    ELSE LET release_recording_ids == release_data.tracks
             release_recording_titles ==
                 { normalize_title_for_matching(RecordingCatalogue[r].title) :
                     r \in release_data.tracks }
         IN  /\ Range(recording_mbids) \subseteq release_recording_ids
             /\ { normalize_title_for_matching(t) : t \in Range(recording_titles) }
                    \subseteq release_recording_titles

\* the key of scored_releases.sort: (-score, date)
SortsBefore(x, y) ==
    \/ x.score > y.score
    \/ x.score = y.score /\ DateLess(x.date, y.date)

\* a plausible slip: an entry goes before the first one it does not sort after,
\* so equal entries come out in reverse
InsertScored_before_equal(sorted, x) ==
    LET later == { i \in DOMAIN sorted : ~SortsBefore(sorted[i], x) }
        at == IF later = {} THEN Len(sorted) + 1
              ELSE CHOOSE i \in later : \A j \in later : i <= j
    IN  SubSeq(sorted, 1, at - 1) \o <<x>> \o SubSeq(sorted, at, Len(sorted))

\* list.sort(key=...): stable, an entry goes before the first one it sorts
\* before
InsertScored(sorted, x) ==
    LET later == { i \in DOMAIN sorted : SortsBefore(x, sorted[i]) }
        at == IF later = {} THEN Len(sorted) + 1
              ELSE CHOOSE i \in later : \A j \in later : i <= j
    IN  SubSeq(sorted, 1, at - 1) \o <<x>> \o SubSeq(sorted, at, Len(sorted))

RECURSIVE SortScored(_)
SortScored(entries) ==
    IF entries = <<>> THEN <<>>
    ELSE InsertScored(SortScored(SubSeq(entries, 1, Len(entries) - 1)),
                      entries[Len(entries)])

\* the entry (score, date, release, contains_songs) of a release
Scored(release, song_mbids, song_titles) ==
    LET sc == score_release_for_song(release)
        contains_songs == (song_mbids # <<>> \/ song_titles # <<>>)
                          /\ release_contains_recordings(release, song_mbids, song_titles)
    IN  [score |-> sc.score + (IF contains_songs THEN BonusContains ELSE 0),
         date |-> sc.date, release |-> release, contains_songs |-> contains_songs]

Min(a, b) == IF a < b THEN a ELSE b

\* the loop over the top candidates from index i on: each is fetched and, when
\* the fetch succeeds, scored again on the full release
\* a plausible slip: every scored candidate is fetched
RECURSIVE FetchTop_all(_, _, _, _, _, _, _, _)
FetchTop_all(scored_releases, i, song_mbids, song_titles, cache, down, requests, top_releases) ==
    IF i > Len(scored_releases)
    THEN [top_releases |-> top_releases, requests |-> requests, cache |-> cache]
    ELSE LET g == get_entity("releases", scored_releases[i].release.id, cache, down)
             entry == IF g.found THEN Scored(g.data, song_mbids, song_titles)
                      ELSE scored_releases[i]
         IN  FetchTop_all(scored_releases, i + 1, song_mbids, song_titles, g.cache, down,
                          requests \o g.requests, Append(top_releases, entry))

RECURSIVE FetchTop(_, _, _, _, _, _, _, _)
FetchTop(scored_releases, i, song_mbids, song_titles, cache, down, requests, top_releases) ==
    IF i > Min(TopCandidates, Len(scored_releases))
    THEN [top_releases |-> top_releases, requests |-> requests, cache |-> cache]
    ELSE LET g == get_entity("releases", scored_releases[i].release.id, cache, down)
             entry == IF g.found THEN Scored(g.data, song_mbids, song_titles)
                      ELSE scored_releases[i]
         IN  FetchTop(scored_releases, i + 1, song_mbids, song_titles, g.cache, down,
                      requests \o g.requests, Append(top_releases, entry))

\* _format_album_properties: title, MBID, the artist and label relations when
\* their pages were found or created
format_album_properties(release_data, artist_page_ids, label_page_ids) ==
    LET base == FunUnion(Single("title", Txt(release_data.title)),
                         Single("musicbrainz_id", Txt(release_data.id)))
        artist == IF artist_page_ids # <<>>
                  THEN Single("artist", Rel(artist_page_ids)) ELSE Empty
        label == IF label_page_ids # <<>>
                 THEN Single("label", Rel(label_page_ids)) ELSE Empty
    IN  FunUnion(FunUnion(base, artist), label)

\* what the handler obtains from the linked artist and song pages
album_links_of(page, env) ==
    IF env.pages_ok
    THEN [artist_mbid |-> page.artist_mbid, song_mbids |-> page.song_mbids,
          song_titles |-> page.song_titles]
    ELSE [artist_mbid |-> None, song_mbids |-> <<>>, song_titles |-> <<>>]

\* the candidate queries: the releases of the linked artist, else of the first
\* linked song, else of the first exact match of the first song title; then
\* search_releases when that gave nothing
CandidateSearch(links, env) ==
    LET first_match == { i \in DOMAIN env.recording_search :
                           titles_match_exactly(links.song_titles[1],
                                                env.recording_search[i].title) }
        primary ==
            IF links.artist_mbid # None
            THEN [results |-> env.primary, requests |-> <<<<"search", "releases", "arid">>>>]
            ELSE IF links.song_mbids # <<>>
            THEN [results |-> env.primary, requests |-> <<<<"search", "releases", "rid">>>>]
            ELSE IF links.song_titles # <<>>
            THEN IF first_match # {}
                 THEN [results |-> env.primary,
                       requests |-> << <<"search", "recordings", "">>,
                                       <<"search", "releases", "rid">> >>]
                 ELSE [results |-> <<>>, requests |-> <<<<"search", "recordings", "">>>>]
            ELSE [results |-> <<>>, requests |-> <<>>]
    IN  IF primary.results # <<>> THEN primary
        ELSE [results |-> env.fallback,
              requests |-> primary.requests \o <<<<"search", "releases", "">>>>]

\* the handler from the point where release_data is known
AlbumTail(searched, data, page, env, requests, cache) ==
    LET new == format_album_properties(data, env.artist_page_ids, env.label_page_ids)
    IN  { Written(searched, data, new, m, page, env, requests, cache) :
          m \in merge_relations(page.props, new, "albums", RelationFields("albums")) }

\* the search branch: candidates, exact title filter, scores, the top
\* candidates fetched and scored again, the filter on contains_songs
AlbumSearch(page, links, env, requests0, cache) ==
    LET c == CandidateSearch(links, env)
        requests == requests0 \o c.requests
        matching_releases ==
            SelectSeq(c.results, LAMBDA r : titles_match_exactly(page.title, r.title))
        scored_releases ==
            SortScored([i \in DOMAIN matching_releases |->
                          Scored(matching_releases[i], links.song_mbids, links.song_titles)])
        f == FetchTop(scored_releases, 1, links.song_mbids, links.song_titles,
                      cache, env.down, requests, <<>>)
        sorted == SortScored(f.top_releases)
        releases_with_songs == SelectSeq(sorted, LAMBDA r : r.contains_songs)
        top_releases ==
            IF (links.song_mbids # <<>> \/ links.song_titles # <<>>)
               /\ releases_with_songs # <<>>
            THEN releases_with_songs ELSE sorted
    IN  IF links.artist_mbid # None /\ env.arid_fails
        THEN { Returned("failure", TRUE, page,
                        requests0 \o <<<<"search", "releases", "arid">>>>, cache) }
        ELSE IF c.results = <<>> \/ matching_releases = <<>>
        THEN { Returned("failure", TRUE, page, requests, cache) }
        ELSE { [o EXCEPT !.ranked = [i \in DOMAIN sorted |-> sorted[i].release.id]] :
               o \in AlbumTail(TRUE, top_releases[1].release, page, env,
                               f.requests, f.cache) }

\* a plausible slip: a page whose stored MBID resolves is skipped without the
\* check of its linked songs
sync_album_page_skip_unverified(page, force_all, cache, env) ==
    IF page.title = NoTitle
    THEN { Returned("skip", FALSE, page, <<>>, cache) }
    ELSE
    LET links == album_links_of(page, env)
        g1 == IF page.mbid # None
              THEN get_entity("releases", page.mbid, cache, env.down)
              ELSE [found |-> FALSE, data |-> NoData, requests |-> <<>>,
                    cache |-> cache]
    IN  IF g1.found /\ ~force_all
        THEN { Returned("skip", FALSE, page, g1.requests, g1.cache) }
        ELSE IF g1.found
        THEN AlbumTail(FALSE, g1.data, page, env, g1.requests, g1.cache)
        ELSE AlbumSearch(page, links, env, g1.requests, g1.cache)

\* sync_album_page(page, force_all): every outcome the call may have
sync_album_page(page, force_all, cache, env) ==
    IF page.title = NoTitle
    THEN { Returned("skip", FALSE, page, <<>>, cache) }
    ELSE
    LET links == album_links_of(page, env)
        g1 == IF page.mbid # None
              THEN get_entity("releases", page.mbid, cache, env.down)
              ELSE [found |-> FALSE, data |-> NoData, requests |-> <<>>,
                    cache |-> cache]
        verified == g1.found /\ release_contains_recordings(g1.data, links.song_mbids,
                                                            links.song_titles)
    IN  IF verified /\ ~force_all
        THEN { Returned("skip", FALSE, page, g1.requests, g1.cache) }
        ELSE IF verified
        THEN AlbumTail(FALSE, g1.data, page, env, g1.requests, g1.cache)
        ELSE AlbumSearch(page, links, env, g1.requests, g1.cache)

(***************************************************************************)
(* Pages and answers the artist and label handlers are run on               *)
(***************************************************************************)
MaxResults == 2

RECURSIVE SeqsOver(_, _)
SeqsOver(S, n) ==
    IF n = 0 THEN {<<>>}
    ELSE LET shorter == SeqsOver(S, n - 1)
         IN  shorter \cup { Append(q, x) : q \in shorter, x \in S }

LocOutcomes == {"unconfigured", "found", "failed"}

PageTitles(table) ==
    CASE table = "artists" -> {NoTitle, Radiohead}
      [] table = "labels"  -> {NoTitle, XL}

\* the pages of a database: with or without a title, a stored MBID (resolvable
\* or gone) or none, and relation targets a person may have added by hand
ArtistLabelPages(table) ==
    { [title |-> t, mbid |-> m,
       props |-> PropsOf([k \in RelationFields(table) |-> ex[k]],
                         [k \in {"title"} |-> "old"])] :
        t \in PageTitles(table),
        m \in {None, GoneId} \cup DOMAIN Catalogue(table),
        ex \in [RelationFields(table) -> {<<>>, <<"A">>}] }

ArtistLabelEnvs(table) ==
    { [search |-> q, down |-> d, loc |-> l, accepted |-> a] :
        q \in SeqsOver(DOMAIN Catalogue(table), MaxResults),
        d \in SUBSET DOMAIN Catalogue(table),
        l \in LocOutcomes, a \in BOOLEAN }

RecordingStub(i) == [id |-> i, title |-> RecordingCatalogue[i].title]

RecordingStubs ==
    { RecordingStub(i) : i \in DOMAIN RecordingCatalogue }
    \cup { [id |-> None, title |-> Creep] }

\* the resolvable recording MBID pages store
StoredRecordingIds == {"rc3"}

\* the song pages: the untitled page is skipped before anything else is read
SongPages ==
    { [title |-> Creep, mbid |-> m, album |-> al,
       props |-> PropsOf([k \in RelationFields("songs") |-> ex],
                         [k \in {"title"} |-> "old"])] :
        m \in {None, GoneId} \cup StoredRecordingIds, al \in {None, "rl1", GoneId},
        ex \in {<<>>, <<"A">>} }
    \cup { [title |-> NoTitle, mbid |-> m, album |-> None,
              props |-> PropsOf([k \in RelationFields("songs") |-> <<>>],
                                [k \in {} |-> "old"])] : m \in {None} \cup StoredRecordingIds }

SongEnvs ==
    { [search |-> q, down |-> d, pages_ok |-> p, accepted |-> a,
       artist_page_ids |-> f[1], album_page_id |-> f[2]] :
        q \in SeqsOver(RecordingStubs, MaxResults),
        d \in {{}, {"rc1"}, {"rl1"}},
        p \in BOOLEAN, a \in BOOLEAN,
        f \in {<<<<>>, None>>, <<<<"B">>, "C">>, <<<<"A", "B">>, None>>} }

\* a release as a search answers it: with its track list or without
ReleaseStub(mbid, stub_media) ==
    [ReleaseCatalogue[mbid] EXCEPT !.tracks = IF stub_media THEN @ ELSE {}]

Fillers(n) == [i \in 1..n |-> FillerIds[i]]

\* the candidate lists: none to MaxFillers releases f1, f2, ... with up to two
\* of rl1, rl2, rl3 before or after them
CandidateIdLists ==
    LET rich == { <<>>, <<"rl1">>, <<"rl2">>, <<"rl3">>, <<"rl1", "rl2">>,
                  <<"rl2", "rl1">>, <<"rl3", "rl1">> }
    IN  { r \o Fillers(n) : r \in rich, n \in {0, 1, MaxFillers - 1, MaxFillers} }
        \cup { Fillers(n) \o r : r \in rich, n \in {0, 1, MaxFillers - 1, MaxFillers} }

\* the songs linked to an album page: none, one known by title only, one or
\* two with MBID and title
LinkedSongs ==
    { [song_mbids |-> <<>>, song_titles |-> <<>>],
      [song_mbids |-> <<>>, song_titles |-> <<Creep>>],
      [song_mbids |-> <<"rc1">>, song_titles |-> <<Creep>>],
      [song_mbids |-> <<"rc1", "rc3">>, song_titles |-> <<Creep, Creeps>>] }

AlbumPage(title, mbid, artist_mbid, songs, ex) ==
    [title |-> title, mbid |-> mbid, artist_mbid |-> artist_mbid,
     song_mbids |-> songs.song_mbids, song_titles |-> songs.song_titles,
     props |-> PropsOf([k \in RelationFields("albums") |-> ex],
                       [k \in {"title"} |-> "old"])]

AlbumEnv(primary, fallback, stub_media, arid_fails, recording_search, down, pages_ok, accepted, ids) ==
    [primary |-> [i \in DOMAIN primary |-> ReleaseStub(primary[i], stub_media)],
     fallback |-> [i \in DOMAIN fallback |-> ReleaseStub(fallback[i], stub_media)],
     stub_media |-> stub_media, arid_fails |-> arid_fails,
     recording_search |-> recording_search, down |-> down, pages_ok |-> pages_ok, accepted |-> accepted,
     artist_page_ids |-> ids, label_page_ids |-> ids]

\* the calls of the album handler: pages without stored MBID resolved over
\* every candidate list; pages with a stored MBID (containing the songs, not
\* containing them, gone); the queries that fail or give nothing
AlbumCalls ==
    { [page |-> AlbumPage(PabloHoney, None, am, songs, <<"A">>), force_all |-> FALSE,
       env |-> AlbumEnv(q, <<>>, sm, FALSE, <<RecordingStub("rc3"), RecordingStub("rc1")>>,
                        d, TRUE, a, <<"B">>)] :
        am \in {None, "ar1"}, songs \in LinkedSongs,
        q \in CandidateIdLists, sm \in BOOLEAN, d \in {{}, {"rl1"}}, a \in BOOLEAN }
    \cup
    { [page |-> AlbumPage(t, m, None, songs, <<"A">>), force_all |-> fa,
       env |-> AlbumEnv(q, <<>>, FALSE, FALSE, <<RecordingStub("rc1")>>, d, po, TRUE, <<>>)] :
        t \in {NoTitle, PabloHoney}, m \in {"rl1", "f1", GoneId}, songs \in LinkedSongs,
        fa \in BOOLEAN, q \in {<<"rl1", "f1">>, <<"f1", "f2">>},
        d \in {{}, {"rl1"}}, po \in BOOLEAN }
    \cup
    { [page |-> AlbumPage(PabloHoney, None, am, songs, <<>>), force_all |-> FALSE,
       env |-> AlbumEnv(<<>>, fb, FALSE, af, rs, {}, TRUE, TRUE, <<"B">>)] :
        am \in {None, "ar1"}, songs \in LinkedSongs,
        fb \in {<<>>, <<"rl3">>, <<"rl2", "rl1">>}, af \in BOOLEAN,
        rs \in {<<>>, <<RecordingStub("rc3")>>} }

\* no database is being synced
SyIdle == [pc |-> "off"]

\* run_sync(database) has been called and no page of it is processed yet
Syncing(database) == [pc |-> "idle", database |-> database]

\* the cache table the handler of a database reads the stored MBID from
TableOf(kind) == IF kind = "songs" THEN "recordings" ELSE kind

\* the processed page: what the handler was called on (memoized: the stored
\* MBID was in the client's cache), what it obtained (album_mbid, loc) and
\* what it did (writes: the calls of update_page on the page; rejected: the
\* call returned False)
Done(kind, page, force_all, album_mbid, loc, env, o) ==
    [pc |-> "done", kind |-> kind, title |-> page.title, mbid |-> page.mbid,
     before |-> page.props, force_all |-> force_all,
     memoized |-> page.mbid \in DOMAIN mb[TableOf(kind)],
     album_mbid |-> album_mbid, loc |-> IF o.wrote THEN loc ELSE None,
     down |-> env.down,
     search |-> IF o.searched THEN env.search ELSE <<>>,
     result |-> o.result, searched |-> o.searched, data_id |-> o.data_id,
     new_properties |-> o.new_properties, wrote |-> o.wrote,
     writes |-> o.writes, rejected |-> o.wrote /\ ~env.accepted,
     written |-> o.written, after |-> o.after, requests |-> o.requests]

\* an earlier call of get_artist(mbid), by the sync of another page
GetArtist ==
    /\ sy = Syncing("artists")
    /\ \E mbid \in DOMAIN ArtistCatalogue :
          /\ mbid \notin DOMAIN mb.artists
          /\ mb' = get_entity("artists", mbid, mb, {}).cache
    /\ UNCHANGED <<tm, mg, sy, sr, cl, rn, lc>>

\* an earlier call of get_label(mbid)
GetLabel ==
    /\ sy = Syncing("labels")
    /\ \E mbid \in DOMAIN LabelCatalogue :
          /\ mbid \notin DOMAIN mb.labels
          /\ mb' = get_entity("labels", mbid, mb, {}).cache
    /\ UNCHANGED <<tm, mg, sy, sr, cl, rn, lc>>

SyncArtistPage ==
    /\ sy = Syncing("artists")
    /\ \E page \in ArtistLabelPages("artists"), force_all \in BOOLEAN,
          env \in ArtistLabelEnvs("artists") :
          \E o \in sync_artist_page(page, force_all, mb, env) :
              /\ sy' = Done("artists", page, force_all, None, env.loc, env, o)
              /\ mb' = o.cache
    /\ UNCHANGED <<tm, mg, sr, cl, rn, lc>>

SyncLabelPage ==
    /\ sy = Syncing("labels")
    /\ \E page \in ArtistLabelPages("labels"), force_all \in BOOLEAN,
          env \in ArtistLabelEnvs("labels") :
          \E o \in sync_label_page(page, force_all, mb, env) :
              /\ sy' = Done("labels", page, force_all, None, env.loc, env, o)
              /\ mb' = o.cache
    /\ UNCHANGED <<tm, mg, sr, cl, rn, lc>>

\* an earlier call of get_recording(mbid)
GetRecording ==
    /\ sy = Syncing("songs")
    /\ \E mbid \in StoredRecordingIds :
          /\ mbid \notin DOMAIN mb.recordings
          /\ mb' = get_entity("recordings", mbid, mb, {}).cache
    /\ UNCHANGED <<tm, mg, sy, sr, cl, rn, lc>>

\* an earlier call of get_release(mbid)
GetRelease ==
    /\ sy.pc = "idle" /\ sy.database \in {"albums", "songs"}
    /\ \E mbid \in {"rl1"} :
          /\ mbid \notin DOMAIN mb.releases
          /\ mb' = get_entity("releases", mbid, mb, {}).cache
    /\ UNCHANGED <<tm, mg, sy, sr, cl, rn, lc>>

SyncSongPage ==
    /\ sy = Syncing("songs")
    /\ \E page \in SongPages, force_all \in BOOLEAN, env \in SongEnvs :
          \E o \in sync_song_page(page, force_all, mb, env) :
              /\ sy' = Done("songs", page, force_all, album_mbid_of(page, env), None, env, o)
              /\ mb' = o.cache
    /\ UNCHANGED <<tm, mg, sr, cl, rn, lc>>

\* the processed album page: as Done, with the links the handler obtained and
\* the MBIDs of the candidates its queries returned
DoneAlbum(page, force_all, env, o) ==
    LET links == album_links_of(page, env)
        results == IF o.searched /\ ~(links.artist_mbid # None /\ env.arid_fails)
                   THEN CandidateSearch(links, env).results ELSE <<>>
    IN  [pc |-> "done", kind |-> "albums", title |-> page.title, mbid |-> page.mbid,
         before |-> page.props, force_all |-> force_all,
         memoized |-> page.mbid \in DOMAIN mb.releases,
         artist_mbid |-> links.artist_mbid, song_mbids |-> links.song_mbids,
         song_titles |-> links.song_titles, down |-> env.down,
         stub_media |-> env.stub_media, ranked |-> o.ranked,
         search |-> [i \in DOMAIN results |-> results[i].id],
         result |-> o.result, searched |-> o.searched, data_id |-> o.data_id,
         new_properties |-> o.new_properties, wrote |-> o.wrote,
         writes |-> o.writes, rejected |-> o.wrote /\ ~env.accepted,
         written |-> o.written, after |-> o.after, requests |-> o.requests]

SyncAlbumPage ==
    /\ sy = Syncing("albums")
    /\ \E c \in AlbumCalls :
          \E o \in sync_album_page(c.page, c.force_all, mb, c.env) :
              /\ sy' = DoneAlbum(c.page, c.force_all, c.env, o)
              /\ mb' = o.cache
    /\ UNCHANGED <<tm, mg, sr, cl, rn, lc>>

(***************************************************************************)
(* Specifications                                                           *)
(***************************************************************************)
InitTitles ==
    /\ TmInit /\ mg = MgIdle /\ mb = MbInit /\ lc = LcIdle /\ sy = SyIdle
    /\ sr = SrIdle /\ cl = ClIdle /\ rn = RnIdle

NextTitles == TitlesMatch

SpecTitles == InitTitles /\ [][NextTitles]_vars

InitMerge ==
    /\ MgInit /\ tm = TmIdle /\ mb = MbInit /\ lc = LcIdle /\ sy = SyIdle
    /\ sr = SrIdle /\ cl = ClIdle /\ rn = RnIdle

NextMerge == MergeRelations \/ UpdatePage

SpecMerge == InitMerge /\ [][NextMerge]_vars

\* run_sync is called for one of the artist, song and label databases
InitSync ==
    /\ tm = TmIdle /\ mg = MgIdle /\ mb = MbInit /\ lc = LcIdle
    /\ sr = SrIdle /\ cl = ClIdle /\ rn = RnIdle
    /\ sy \in { Syncing(database) : database \in {"artists", "songs", "labels"} }

NextSync ==
    \/ GetArtist \/ SyncArtistPage
    \/ GetLabel \/ SyncLabelPage
    \/ GetRecording \/ GetRelease \/ SyncSongPage

SpecSync == InitSync /\ [][NextSync]_vars

\* run_sync is called for the album database
InitAlbum ==
    /\ tm = TmIdle /\ mg = MgIdle /\ mb = MbInit /\ lc = LcIdle /\ sy = Syncing("albums")
    /\ sr = SrIdle /\ cl = ClIdle /\ rn = RnIdle

NextAlbum == GetRelease \/ SyncAlbumPage

SpecAlbum == InitAlbum /\ [][NextAlbum]_vars

(***************************************************************************)
(* C2: _titles_match_exactly                                                *)
(***************************************************************************)
\* the words of a title stated independently of the code: the maximal runs of
\* ASCII letters and digits, read left to right, with capitals lower-cased
RunStarts(t) ==
    { i \in DOMAIN t : IsAsciiAlnum(t[i]) /\ (i = 1 \/ ~IsAsciiAlnum(t[i - 1])) }

RunEnd(t, i) ==
    CHOOSE j \in i..Len(t) :
        /\ \A k \in i..j : IsAsciiAlnum(t[k])
        /\ (j = Len(t) \/ ~IsAsciiAlnum(t[j + 1]))

NthStart(t, n) ==
    CHOOSE i \in RunStarts(t) : Cardinality({ j \in RunStarts(t) : j < i }) = n - 1

LowerAlnum == Range(LowerSeq) \cup Range(DigitSeq)

ExpectedLower(c) ==
    IF c \in LowerAlnum THEN c
    ELSE CHOOSE l \in Range(LowerSeq) :
            \E i \in DOMAIN LowerSeq : LowerSeq[i] = l /\ UpperSeq[i] = c

ExpectedWords(t) ==
    [n \in 1..Cardinality(RunStarts(t)) |->
        LET i == NthStart(t, n)
        IN  [k \in 1..(RunEnd(t, i) - i + 1) |-> ExpectedLower(t[i + k - 1])]]

\* C2: titlesMatchExactly(a, b) is true if and only if a and b normalize to the
\* same ordered sequence of lowercase alphanumeric words (the maximal runs of
\* letters and digits, lower-cased); it is symmetric; "Abbey-Road!" matches
\* "abbey road" and "Abbey Road" does not match "Abbey Roads".
C2_TitlesMatchIffSameWords ==
    tm.pc = "done" =>
        /\ tm.words1 = ExpectedWords(tm.title1)
        /\ tm.words2 = ExpectedWords(tm.title2)
        /\ \A i \in DOMAIN tm.words1 :
              tm.words1[i] # <<>> /\ Range(tm.words1[i]) \subseteq LowerAlnum
        /\ tm.result = (ExpectedWords(tm.title1) = ExpectedWords(tm.title2))
        /\ tm.result = tm.swapped
        /\ (tm.title1 = AbbeyRoadPunct /\ tm.title2 = AbbeyRoadLower => tm.result)
        /\ (tm.title1 = AbbeyRoad /\ tm.title2 = AbbeyRoads => ~tm.result)

C2_Witness ==
    /\ tm.pc = "done"
    /\ tm.title1 = AbbeyRoadPunct
    /\ tm.title2 = AbbeyRoadLower
    /\ tm.result

(***************************************************************************)
(* C6, C7: _merge_relations                                                 *)
(***************************************************************************)
\* the link fields the relation merge step is specified for
LinkFields == {"artist", "album", "label", "songs"}

C7_AbsentRelationUntouched ==
    mg.pc = "written" =>
        /\ \A k \in RelationFields(mg.database_type) \ DOMAIN mg.new_properties :
              k \notin DOMAIN mg.merged /\ mg.after[k] = mg.page[k]
        /\ \A k \in DOMAIN mg.new_properties :
              mg.new_properties[k].type # "relation" =>
                  k \in DOMAIN mg.merged /\ mg.merged[k] = mg.new_properties[k]

C7_Witness ==
    /\ mg.pc = "written"
    /\ mg.ok
    /\ mg.database_type = "albums"
    /\ "artist" \in mg.configured
    /\ "artist" \notin DOMAIN mg.new_properties
    /\ "title" \in DOMAIN mg.new_properties
    /\ mg.page["artist"].relation = <<"A", "B">>
    /\ mg.after["artist"].relation = <<"A", "B">>
    /\ mg.after["title"] = Txt("new")

(***************************************************************************)
(* Properties of the page handlers (SpecSync)                               *)
(***************************************************************************)
\* the title the catalogue holds for the entity a page of a database is
\* resolved to
RemoteTitle(kind, mbid) ==
    CASE kind = "artists" -> ArtistCatalogue[mbid].name
      [] kind = "labels"  -> LabelCatalogue[mbid].name
      [] kind = "songs"   -> RecordingCatalogue[mbid].title

\* C1: whenever a page is resolved through search and a write-back follows,
\* the MBID written belongs to an entity whose normalized title equals the
\* normalized title of the page, for every database; an artist page titled
\* "Radiohead" is only resolved to an entity whose name normalizes to
\* <<"radiohead">>.  The artist and label handlers take the first search
\* result unverified, so this does not hold.
C1_SearchResolvedTitleMatches ==
    sy.pc = "done" /\ sy.searched /\ sy.wrote =>
        /\ sy.written["musicbrainz_id"] = Txt(sy.data_id)
        /\ titles_match_exactly(sy.title, RemoteTitle(sy.kind, sy.data_id))

\* the search results that pass the checks of the song handler, stated on the
\* catalogue: the release is verified when the client holds it after the call
TitlePasses(i) == titles_match_exactly(sy.title, sy.search[i].title)

OnAlbum(i) ==
    /\ sy.album_mbid \in DOMAIN mb.releases
    /\ sy.search[i].id \in ReleaseCatalogue[sy.album_mbid].tracks

Passes(i) ==
    /\ TitlePasses(i)
    /\ sy.album_mbid = None \/ sy.search[i].id = None \/ OnAlbum(i)

FirstPassing == { i \in DOMAIN sy.search : Passes(i) /\ \A j \in 1..(i - 1) : ~Passes(j) }

\* C3: the song search results are taken in the order returned and the first
\* one passing every check (exact title, album containment when an album MBID
\* is known) is the one accepted; when none passes the page ends as a failure
\* and nothing is written to it; a result with an inexact title is never
\* accepted.
C3_FirstPassingResultOrFailure ==
    sy.pc = "done" /\ sy.kind = "songs" /\ sy.searched =>
        /\ sy.wrote =>
              /\ \E i \in FirstPassing : sy.search[i].id = sy.data_id
              /\ sy.written["musicbrainz_id"] = Txt(sy.data_id)
              /\ titles_match_exactly(sy.title, RecordingCatalogue[sy.data_id].title)
        /\ (\E i \in FirstPassing :
               sy.search[i].id # None /\ sy.search[i].id \in DOMAIN mb.recordings)
              => sy.wrote
        /\ FirstPassing = {} =>
              sy.result = "failure" /\ ~sy.wrote /\ sy.after = sy.before

C3_Witness ==
    /\ sy.pc = "done" /\ sy.kind = "songs" /\ sy.searched
    /\ sy.album_mbid = None
    /\ Len(sy.search) = 2
    /\ sy.search[1].id = "rc3" /\ ~TitlePasses(1)
    /\ sy.search[2].id = "rc2"
    /\ sy.result = "success"
    /\ sy.data_id = "rc2"
    /\ sy.after["musicbrainz_id"] = Txt("rc2")

\* C4: when the handler knows the MBID of the linked album, a recording found
\* by search is accepted only if it is in the track listing of that release;
\* when no result is so verified (the release cannot be fetched or a result
\* has no id included) the song ends as a failure and nothing is written.
C4_AcceptedRecordingIsOnAlbum ==
    sy.pc = "done" /\ sy.kind = "songs" /\ sy.searched /\ sy.album_mbid # None =>
        /\ sy.wrote =>
              /\ sy.album_mbid \in DOMAIN ReleaseCatalogue
              /\ sy.album_mbid \in DOMAIN mb.releases
              /\ sy.data_id \in ReleaseCatalogue[sy.album_mbid].tracks
        /\ (\A i \in DOMAIN sy.search :
               ~(TitlePasses(i) /\ sy.search[i].id # None /\ OnAlbum(i)))
              => sy.result = "failure" /\ ~sy.wrote /\ sy.after = sy.before
        /\ sy.album_mbid \notin DOMAIN mb.releases
              => sy.result = "failure" /\ ~sy.wrote

C4_Witness ==
    /\ sy.pc = "done" /\ sy.kind = "songs" /\ sy.searched
    /\ sy.album_mbid = "rl1"
    /\ Len(sy.search) = 2
    /\ sy.search[1].id = "rc2" /\ TitlePasses(1) /\ ~OnAlbum(1)
    /\ sy.search[2].id = "rc1"
    /\ sy.result = "success"
    /\ sy.data_id = "rc1"

\* the release holds every song linked to the album page, by MBID and by title
ContainsRequired(mbid) ==
    /\ Range(sy.song_mbids) \subseteq ReleaseCatalogue[mbid].tracks
    /\ \A t \in Range(sy.song_titles) :
          \E r \in ReleaseCatalogue[mbid].tracks :
              titles_match_exactly(t, RecordingCatalogue[r].title)

\* C5 as stated: in album resolution with linked songs, when some candidate
\* the queries returned has the page's title and holds every linked song, the
\* release selected holds every linked song (stated here for calls in which no
\* request fails and the page is written).  Only the first TopCandidates
\* releases in the order of their search-level score are fetched and checked,
\* so this does not hold.
C5_ContainingCandidateSelected ==
    sy.pc = "done" /\ sy.kind = "albums" /\ sy.searched /\ sy.result = "success"
        /\ sy.down = {} /\ (sy.song_mbids # <<>> \/ sy.song_titles # <<>>)
        => ((\E i \in DOMAIN sy.search :
                /\ titles_match_exactly(sy.title, ReleaseCatalogue[sy.search[i]].title)
                /\ ContainsRequired(sy.search[i]))
            => ContainsRequired(sy.data_id))

\* the candidates with the page's title, in the order returned
MatchingIds ==
    SelectSeq(sy.search,
              LAMBDA m : titles_match_exactly(sy.title, ReleaseCatalogue[m].title))

\* the entry of a candidate on its search-level data
StubScored(mbid) ==
    Scored(ReleaseStub(mbid, sy.stub_media), sy.song_mbids, sy.song_titles)

\* the handler has seen that the release holds every linked song: on the full
\* release when the client holds it after the call, else on the search result
Verified(mbid) ==
    /\ mbid \in DOMAIN mb.releases \/ sy.stub_media
    /\ ContainsRequired(mbid)

\* C5, amended: in album resolution with linked songs, the candidates examined
\* are the first TopCandidates title-matching candidates in the order of their
\* search-level score and date; among them a release seen to hold every linked
\* song outranks one not seen to, and the release selected is the first of the
\* ranking, so it holds every linked song whenever an examined candidate was
\* seen to; only when none was does resolution go on with another release.
\* With at most TopCandidates title-matching candidates and no failed request,
\* the release selected holds every linked song whenever a candidate does.
C5_ExaminedContainingSelected ==
    sy.pc = "done" /\ sy.kind = "albums" /\ sy.searched /\ sy.wrote
        /\ (sy.song_mbids # <<>> \/ sy.song_titles # <<>>)
        => /\ Len(sy.ranked) = Min(TopCandidates, Len(MatchingIds))
           /\ Range(sy.ranked) \subseteq Range(MatchingIds)
           /\ \A u \in Range(MatchingIds) \ Range(sy.ranked), t \in Range(sy.ranked) :
                 ~SortsBefore(StubScored(u), StubScored(t))
           /\ \A i, j \in DOMAIN sy.ranked :
                 i < j /\ Verified(sy.ranked[j]) => Verified(sy.ranked[i])
           /\ sy.data_id = sy.ranked[1]
           /\ (\E t \in Range(sy.ranked) : Verified(t)) => ContainsRequired(sy.data_id)
           /\ Len(MatchingIds) <= TopCandidates /\ sy.down = {}
                 => ((\E m \in Range(MatchingIds) : ContainsRequired(m))
                     => ContainsRequired(sy.data_id))

C5_Witness ==
    /\ sy.pc = "done" /\ sy.kind = "albums" /\ sy.searched /\ sy.result = "success"
    /\ sy.song_mbids = <<"rc1">>
    /\ Len(MatchingIds) = TopCandidates + 1
    /\ sy.search[Len(sy.search)] = "rl2"
    /\ ~ContainsRequired(sy.search[1])
    /\ sy.ranked[1] = "rl2"
    /\ sy.data_id = "rl2"
    /\ sy.after["musicbrainz_id"] = Txt("rl2")

\* C8: for every database and every relation field written with a non-empty
\* freshly computed value, every target the page held before the sync is
\* still in the value written, the area relations of artist and label pages
\* included.  The merge lists no field for artists and the label handler does
\* not merge, so this does not hold.
C8_StoredTargetsKeptInWrite ==
    sy.pc = "done" /\ sy.wrote =>
        \A k \in DOMAIN sy.new_properties :
            sy.new_properties[k].type = "relation" /\ sy.new_properties[k].relation # <<>>
                => /\ k \in DOMAIN sy.written
                   /\ RelationIds(sy.before, k) \subseteq RelationIds(sy.written, k)

\* C9: a relation field the fresh property set holds with an empty list (the
\* born-in of an artist without begin-area) is written as the empty relation,
\* which clears it on the page; a field absent from the fresh property set is
\* not in the write and the page keeps its value.
C9_EmptyRelationClearsAbsentOmitted ==
    sy.pc = "done" /\ sy.wrote =>
        /\ \A k \in DOMAIN sy.new_properties :
              sy.new_properties[k] = Rel(<<>>) =>
                  /\ k \in DOMAIN sy.written /\ sy.written[k] = Rel(<<>>)
                  /\ sy.result = "success" => sy.after[k] = Rel(<<>>)
        /\ sy.kind = "artists" /\ sy.loc # "unconfigured"
              /\ ArtistCatalogue[sy.data_id].begin_area = None
              => "born_in" \in DOMAIN sy.new_properties
                 /\ sy.new_properties["born_in"] = Rel(<<>>)
        /\ DOMAIN sy.written = DOMAIN sy.new_properties
        /\ \A k \in DOMAIN sy.before \ DOMAIN sy.new_properties :
              sy.after[k] = sy.before[k]

C9_Witness ==
    /\ sy.pc = "done" /\ sy.kind = "artists" /\ sy.result = "success"
    /\ sy.data_id = "ar1" /\ sy.loc = "failed"
    /\ sy.before["born_in"] = Rel(<<"A">>)
    /\ sy.after["born_in"] = Rel(<<>>)
    /\ "area" \notin DOMAIN sy.written
    /\ sy.before["area"] = Rel(<<"A">>)
    /\ sy.after["area"] = Rel(<<"A">>)

StoredResolves ==
    \/ sy.memoized
    \/ sy.mbid \in DOMAIN Catalogue(TableOf(sy.kind)) /\ sy.mbid \notin sy.down

AlbumStoredResolves ==
    \/ sy.memoized
    \/ sy.mbid \in DOMAIN ReleaseCatalogue /\ sy.mbid \notin sy.down

IsSearchRequest(r) == r[1] = "search"

\* C11: for a titled album page whose stored MBID resolves, with force_all
\* off, the page is skipped with no candidate search and no write exactly
\* when the stored release holds every linked song (or none is linked); when
\* it does not, the stored MBID is dropped and the album is resolved again by
\* search although force_all is off.
C11_AlbumSkippedIffStoredContains ==
    sy.pc = "done" /\ sy.kind = "albums" /\ sy.title # NoTitle
        /\ sy.mbid # None /\ ~sy.force_all /\ AlbumStoredResolves
        => /\ sy.result = "skip" <=> ContainsRequired(sy.mbid)
           /\ sy.result = "skip" =>
                 /\ ~sy.searched /\ ~sy.wrote /\ sy.after = sy.before
                 /\ \A i \in DOMAIN sy.requests : ~IsSearchRequest(sy.requests[i])
           /\ ~ContainsRequired(sy.mbid) =>
                 /\ sy.searched
                 /\ \E i \in DOMAIN sy.requests : IsSearchRequest(sy.requests[i])

C11_Witness ==
    /\ sy.pc = "done" /\ sy.kind = "albums" /\ ~sy.force_all
    /\ sy.mbid = "f1" /\ sy.song_mbids = <<"rc1">>
    /\ ~ContainsRequired("f1")
    /\ sy.searched /\ sy.result = "success"
    /\ sy.data_id = "rl1"
    /\ sy.after["musicbrainz_id"] = Txt("rl1")

\* ---------------------------------------------------------------------------
\* The release scorer on its own (SpecScore)
\* ---------------------------------------------------------------------------

ScoreDates ==
    {NoDate, <<1995>>, <<1995, 4>>, <<1995, 4, 30>>, <<1995, 1, 1>>, <<1995, 12, 31>>,
     <<1996, 2>>, <<1996, 2, 28>>, <<1996, 2, 29>>}

ScoreEvents ==
    {<<>>,
     <<[area |-> "us", date |-> <<1995, 4>>]>>,
     <<[area |-> "GB", date |-> NoDate]>>,
     <<[area |-> None, date |-> <<1996, 2>>], [area |-> "US", date |-> <<1995>>]>>}

\* releases as the scorer may be handed them
ScoreReleases ==
    { [id |-> "rl1", title |-> PabloHoney, country |-> c, date |-> d, events |-> e,
       group_type |-> t, group_primary_type |-> p, group_date |-> g, tracks |-> {}] :
        c \in {None, "US", "us", "GB"}, d \in ScoreDates, e \in ScoreEvents,
        t \in {None, "Album", "album", "Single"}, p \in {None, "Album", "album", "Single"},
        g \in {NoDate, <<1993>>} }

InitScore ==
    /\ sr \in { [pc |-> "given", release |-> r] : r \in ScoreReleases }
    /\ tm = TmIdle /\ mg = MgIdle /\ mb = MbInit /\ lc = LcIdle /\ sy = SyIdle
    /\ cl = ClIdle /\ rn = RnIdle

ScoreRelease ==
    /\ sr.pc = "given"
    /\ LET s == score_release_for_song(sr.release)
       IN  sr' = [pc |-> "scored", release |-> sr.release,
                  score |-> s.score, date |-> s.date]
    /\ UNCHANGED <<tm, mg, mb, sy, cl, rn, lc>>

NextScore == ScoreRelease

SpecScore == InitScore /\ [][NextScore]_vars

\* the country the points are given for: the release's own, or failing that
\* the area of its first release-event
CountryOf(release) ==
    IF release.country # None THEN UpperCountry(release.country)
    ELSE IF release.events # <<>> THEN UpperCountry(release.events[1].area)
    ELSE None

\* C12: the score is 100 exactly for a US release plus 50 exactly for a
\* release-group whose primary type is "album" in any letter case, so it is one
\* of 0, 50, 100, 150; a US release of primary type "Album" dated "1995" scores
\* 150 with tie-break date 1995-12-31.
C12_ScoreFromCountryAndPrimaryType ==
    sr.pc = "scored" =>
        /\ sr.score = (IF CountryOf(sr.release) = "US" THEN 100 ELSE 0)
                      + (IF LowerType(sr.release.group_primary_type) = "album"
                         THEN 50 ELSE 0)
        /\ sr.score \in {0, 50, 100, 150}
        /\ sr.release.country = "US" /\ sr.release.group_primary_type = "Album"
                /\ sr.release.date = <<1995>>
            => sr.score = 150 /\ sr.date = <<1995, 12, 31>>

\* the first date available: release, first release-event, release-group
FirstDate(release) ==
    IF release.date # NoDate THEN release.date
    ELSE IF release.events # <<>> /\ release.events[1].date # NoDate
         THEN release.events[1].date
    ELSE release.group_date

IsLeap(y) == y % 4 = 0 /\ (y % 100 # 0 \/ y % 400 = 0)

\* the last calendar day of a month
DaysIn(y, m) ==
    IF m = 2 THEN (IF IsLeap(y) THEN 29 ELSE 28)
    ELSE IF m \in {4, 6, 9, 11} THEN 30 ELSE 31

\* d is a full date of the year or month that the partial date p names
Covers(p, d) ==
    /\ Len(d) = 3 /\ Len(p) \in {1, 2}
    /\ \A i \in 1..Len(p) : p[i] = d[i]
    /\ d[3] <= DaysIn(d[1], d[2])

\* C13: the tie-break date comes from the first available of release date,
\* first release-event date, release-group first-release date; year-only
\* becomes December 31 of the year, year-month the last calendar day of the
\* month, a full date is kept, no date becomes 9999-12-31; so no full date
\* sorts after a partial date covering it, and a dated release sorts before an
\* undated one.
C13_TieBreakDateNormalized ==
    sr.pc = "scored" =>
        LET d == FirstDate(sr.release)
        IN  /\ Len(d) = 0 => sr.date = FarFuture
            /\ Len(d) = 1 => sr.date = <<d[1], 12, 31>>
            /\ Len(d) = 2 => sr.date = <<d[1], d[2], DaysIn(d[1], d[2])>>
            /\ Len(d) = 3 => sr.date = d
            /\ Len(d) > 0 => DateLess(sr.date, FarFuture)
            /\ \A full \in ScoreDates :
                    Covers(d, full) => ~DateLess(sr.date, full)

\* ---------------------------------------------------------------------------
\* The best release for a song (SpecRank)
\* ---------------------------------------------------------------------------

MaxRank == 3

\* the entry (score, date, release) of a release
ScoredForSong(release) ==
    LET s == score_release_for_song(release)
    IN  [score |-> s.score, date |-> s.date, release |-> release]

\* {**release, **full_release}: the fetched release carries every key of the
\* search-level one, so its values are the ones kept
MergeRelease(release, full_release) == full_release

\* the loop over the top candidates from index i on
RECURSIVE RescoreTop(_, _, _, _, _, _)
RescoreTop(scored_releases, i, cache, down, requests, top_releases) ==
    IF i > Min(TopCandidates, Len(scored_releases))
    THEN [top_releases |-> top_releases, requests |-> requests, cache |-> cache]
    ELSE LET release == scored_releases[i].release
             g == get_entity("releases", release.id, cache, down)
             entry == IF g.found THEN ScoredForSong(MergeRelease(release, g.data))
                      ELSE scored_releases[i]
         IN  RescoreTop(scored_releases, i + 1, g.cache, down,
                        requests \o g.requests, Append(top_releases, entry))

\* _find_best_release_for_song(releases)
find_best_release_for_song(releases, cache, down) ==
    IF releases = <<>>
    THEN [found |-> FALSE, release |-> NoData, scored |-> <<>>, sorted |-> <<>>,
          top |-> <<>>, ranking |-> <<>>, requests |-> <<>>, cache |-> cache]
    ELSE LET scored == [i \in DOMAIN releases |-> ScoredForSong(releases[i])]
             scored_releases == SortScored(scored)
             t == RescoreTop(scored_releases, 1, cache, down, <<>>, <<>>)
             top_releases == SortScored(t.top_releases)
         IN  [found |-> TRUE, release |-> top_releases[1].release,
              scored |-> scored, sorted |-> scored_releases,
              top |-> t.top_releases, ranking |-> top_releases,
              requests |-> t.requests, cache |-> t.cache]

RankIds == {"rl1", "rl2", "rl3", "rl4", "f1", "f2"}

\* a release as a recording's release list may carry it: with the fields of
\* the full release, or with the MBID and title only
BareStub(mbid) ==
    [ReleaseCatalogue[mbid] EXCEPT !.country = None, !.date = NoDate, !.events = <<>>,
        !.group_type = None, !.group_primary_type = None, !.group_date = NoDate,
        !.tracks = {}]

RankStubs ==
    { ReleaseStub(i, FALSE) : i \in RankIds } \cup { BareStub(i) : i \in {"rl3", "f1"} }

RankLists == UNION { [1..n -> RankStubs] : n \in 0..MaxRank }

InitRank ==
    /\ sr \in { [pc |-> "given", releases |-> l, down |-> d] :
                    l \in RankLists, d \in {{}, {"rl3"}} }
    /\ tm = TmIdle /\ mg = MgIdle /\ mb = MbInit /\ lc = LcIdle /\ sy = SyIdle
    /\ cl = ClIdle /\ rn = RnIdle

FindBestRelease ==
    /\ sr.pc = "given"
    /\ LET b == find_best_release_for_song(sr.releases, mb, sr.down)
       IN  /\ sr' = [pc |-> "ranked", releases |-> sr.releases, down |-> sr.down,
                     found |-> b.found, release |-> b.release, scored |-> b.scored,
                     sorted |-> b.sorted, top |-> b.top, ranking |-> b.ranking,
                     requests |-> b.requests]
           /\ mb' = b.cache
    /\ UNCHANGED <<tm, mg, sy, cl, rn, lc>>

NextRank == FindBestRelease

SpecRank == InitRank /\ [][NextRank]_vars

\* B does not rank before A on (points descending, date ascending)
NotAfter(a, b) == ~SortsBefore(b, a)

SameKeys(a, b) == a.score = b.score /\ a.date = b.date

\* out is the stable sort of in: a rearrangement p of the positions that puts
\* the keys in order and keeps equal keys in their order of arrival
StableSortOf(in, out) ==
    /\ Len(in) = Len(out)
    /\ \E p \in [DOMAIN out -> DOMAIN in] :
        /\ \A i, j \in DOMAIN out : i # j => p[i] # p[j]
        /\ \A i \in DOMAIN out : out[i] = in[p[i]]
        /\ \A i, j \in DOMAIN out : i < j =>
            /\ NotAfter(out[i], out[j])
            /\ SameKeys(out[i], out[j]) => p[i] < p[j]

\* C14: each ranking is the stable sort of its list by points descending, then
\* date ascending: A is before B whenever A has more points, or the same points
\* and an earlier date; equal candidates keep their order; among equal points
\* the undated come last; the selected candidate is the first of the ranking.
C14_RankingIsStableSort ==
    sr.pc = "ranked" /\ sr.found =>
        /\ StableSortOf(sr.scored, sr.sorted)
        /\ StableSortOf(sr.top, sr.ranking)
        /\ \A i, j \in DOMAIN sr.ranking :
                SortsBefore(sr.ranking[i], sr.ranking[j]) => i < j
        /\ \A i, j \in DOMAIN sr.ranking :
                /\ i < j /\ sr.ranking[i].score = sr.ranking[j].score
                /\ sr.ranking[i].date = FarFuture
                => sr.ranking[j].date = FarFuture
        /\ sr.release = sr.ranking[1].release

\* a ranking in which two candidates tie, a dated one precedes an undated one
\* of the same points, and points decide before dates
C14_Witness ==
    /\ sr.pc = "ranked" /\ sr.found /\ Len(sr.ranking) = 3
    /\ SameKeys(sr.ranking[1], sr.ranking[2])
    /\ sr.ranking[1].release # sr.ranking[2].release
    /\ sr.ranking[3].score = sr.ranking[1].score
    /\ sr.ranking[3].date = FarFuture /\ sr.ranking[1].date # FarFuture

\* ---------------------------------------------------------------------------
\* MusicBrainzAPI: rate limit, retries, memo tables (SpecClient)
\* ---------------------------------------------------------------------------

\* clock ticks in one time unit; the waits are multiples of half a unit
Ticks == 2

\* the clock is kept as the time elapsed since last_request_time, which is all
\* that _rate_limit reads of it; beyond Horizon ticks it is not counted further
Horizon == 4

MaxCalls == 3

request_delay == Ticks

max_retries == 3

Later(elapsed, t) == IF elapsed + t > Horizon THEN Horizon ELSE elapsed + t

\* a plausible slip: the wait after a 429 grows by one unit per attempt
WaitRateLimited_linear(attempt) == (attempt + 2) * Ticks

\* (2 ** attempt) + 1
WaitRateLimited(attempt) == (2 ^ attempt + 1) * Ticks

\* 1 + (attempt * 0.5)
WaitOther(attempt) == Ticks + attempt * (Ticks \div 2)

\* a plausible slip: the status of the last response is not turned into an
\* exception
raise_for_status_never(status) == FALSE

\* Response.raise_for_status raises for a status from 400 to 599
raise_for_status(status) == status >= 400 /\ status < 600

\* what one attempt can meet: a transport error, or a response with a status
Answers ==
    {[error |-> TRUE, status |-> 0]}
        \cup {[error |-> FALSE, status |-> s] : s \in {200, 404, 429, 500}}

\* the time from the start of a request to its response or error
Latencies == {0, 1}

\* the time the caller spends between two client operations
IdleTimes == {0, 1, 3}

ClientCalls ==
    {[op |-> "search_artists", key |-> "Radiohead"],
     [op |-> "get_artist", key |-> "ar1"],
     [op |-> "get_release", key |-> "rl1"],
     [op |-> "get_cover_art_url", key |-> "rl1"]}

CacheTable(op) ==
    CASE op = "get_artist" -> "artists"
      [] op = "get_release" -> "releases"
      [] op = "get_cover_art_url" -> "cover_art"
      [] OTHER -> None

CoverUrl(release_mbid) == <<"cover", release_mbid>>

NoValue == [kind |-> "none", id |-> None]

\* the value a memo table holds for a key, as the caller receives it
CachedValue(cache, op, key) ==
    IF op = "get_cover_art_url" THEN [kind |-> "url", id |-> key]
    ELSE [kind |-> "entity", id |-> cache[CacheTable(op)][key].id]

\* a plausible slip: the limiter never sleeps
sleep_time_none(time_since_last_request) == 0

\* _rate_limit: the sleep that brings the clock to request_delay after the
\* last request
sleep_time(time_since_last_request) ==
    IF time_since_last_request < request_delay
    THEN request_delay - time_since_last_request ELSE 0

\* a count that is not followed beyond two
Counted(n) == IF n < 2 THEN n + 1 ELSE n

\* elapsed: the clock less last_request_time (the first request finds the
\* clock far from the initial last_request_time of 0); gap: the time between
\* the starts of the last two requests, empty before the second request;
\* status: that of the last response (0 when there was none); trips and
\* fetched: per call, the outbound requests and the responses returned by
\* _make_api_request; waits: the waits of the call before its retries, in
\* order; limited: how many of its responses had status 429
ClInit ==
    [pc |-> "idle", elapsed |-> Horizon, gap |-> <<>>, sent |-> FALSE,
     calls |-> 0, op |-> None, key |-> None, attempt |-> 0, attempts |-> 0,
     was_cached |-> FALSE, missed_before |-> FALSE, failed |-> FALSE, status |-> 0,
     waits |-> <<>>, limited |-> 0,
     returned |-> NoValue, trips |-> [c \in ClientCalls |-> 0],
     fetched |-> [c \in ClientCalls |-> 0], misses |-> {}]

InitClient ==
    /\ cl = ClInit /\ mb = MbInit /\ lc = LcIdle
    /\ tm = TmIdle /\ mg = MgIdle /\ sy = SyIdle /\ sr = SrIdle /\ rn = RnIdle

\* the caller starts search_artists, get_artist, get_release or
\* get_cover_art_url: a memoized key is answered at once, else the request
\* operation is entered
Call ==
    /\ cl.pc = "idle" /\ cl.calls < MaxCalls
    /\ \E c \in ClientCalls, idle \in IdleTimes :
        LET cached == c.op # "search_artists" /\ c.key \in DOMAIN mb[CacheTable(c.op)]
        IN  cl' = [cl EXCEPT
                    !.pc = IF cached THEN "idle" ELSE "request",
                    !.elapsed = Later(@, idle), !.calls = @ + 1,
                    !.op = c.op, !.key = c.key,
                    !.attempt = 0, !.attempts = 0, !.was_cached = cached,
                    !.missed_before = c.op = "get_cover_art_url" /\ c.key \in cl.misses,
                    !.failed = FALSE, !.status = 0,
                    !.waits = <<>>, !.limited = 0,
                    !.returned = IF cached THEN CachedValue(mb, c.op, c.key) ELSE NoValue]
    /\ UNCHANGED <<tm, mg, mb, sy, sr, rn, lc>>

\* what the operation does with a response that _make_api_request returned;
\* body: the search found something, or the cover art list has a front image
Completed(c, body) ==
    CASE c.op = "search_artists" ->
            [returned |-> [kind |-> "list", id |-> IF body THEN "ar1" ELSE None],
             cache |-> mb, miss |-> FALSE]
      [] c.op = "get_cover_art_url" ->
            IF body
            THEN [returned |-> [kind |-> "url", id |-> c.key],
                  cache |-> [mb EXCEPT !.cover_art =
                                [k \in DOMAIN @ \cup {c.key} |-> CoverUrl(c.key)]],
                  miss |-> FALSE]
            ELSE [returned |-> NoValue, cache |-> mb, miss |-> TRUE]
      [] OTHER ->
            [returned |-> [kind |-> "entity", id |-> Catalogue(CacheTable(c.op))[c.key].id],
             cache |-> Memoize(mb, CacheTable(c.op), c.key), miss |-> FALSE]

\* what the operation returns when _make_api_request raised
Raised(c) ==
    IF c.op = "search_artists" THEN [kind |-> "list", id |-> None] ELSE NoValue

\* one pass of the loop of _make_api_request: the rate limit, the request, and
\* either the wait before the next pass or the end of the operation
Attempt ==
    /\ cl.pc = "request"
    /\ \E a \in Answers, latency \in Latencies, body \in BOOLEAN :
        LET c == [op |-> cl.op, key |-> cl.key]
            start == cl.elapsed + sleep_time(cl.elapsed)
            bad == a.error \/ a.status >= 400
            sent == [cl EXCEPT !.gap = IF cl.sent THEN <<start>> ELSE <<>>,
                               !.sent = TRUE, !.attempts = @ + 1,
                               !.status = a.status,
                               !.limited = IF ~a.error /\ a.status = 429
                                           THEN @ + 1 ELSE @,
                               !.trips[c] = Counted(@)]
            wait_time == IF ~a.error /\ a.status = 429
                         THEN WaitRateLimited(cl.attempt)
                         ELSE WaitOther(cl.attempt)
        IN  IF bad /\ cl.attempt < max_retries
            THEN /\ cl' = [sent EXCEPT
                            !.elapsed = Later(latency, wait_time),
                            !.waits = Append(@, wait_time),
                            !.attempt = @ + 1]
                 /\ mb' = mb
            ELSE IF a.error \/ raise_for_status(a.status)
            THEN /\ cl' = [sent EXCEPT
                            !.pc = "idle", !.elapsed = latency, !.failed = TRUE,
                            !.returned = Raised(c),
                            !.misses = IF c.op = "get_cover_art_url" /\ ~a.error
                                          /\ a.status = 404
                                       THEN @ \cup {c.key} ELSE @]
                 /\ mb' = mb
            ELSE LET r == Completed(c, body)
                 IN  /\ cl' = [sent EXCEPT
                                !.pc = "idle", !.elapsed = latency,
                                !.returned = r.returned, !.fetched[c] = Counted(@),
                                !.misses = IF r.miss THEN @ \cup {c.key} ELSE @]
                     /\ mb' = r.cache
    /\ UNCHANGED <<tm, mg, sy, sr, rn, lc>>

NextClient == Call \/ Attempt

SpecClient == InitClient /\ [][NextClient]_vars

\* C15: any two consecutive outbound requests are started at least 1.0 time
\* unit apart, whichever operations and retries they belong to.
C15_RequestsOneUnitApart ==
    cl.pc # "off" /\ cl.gap # <<>> => cl.gap[1] >= Ticks

\* the limiter slept between two operations, and the second request started
\* exactly one unit after the first
C15_Witness ==
    /\ cl.pc = "idle" /\ cl.calls >= 2 /\ cl.attempts = 1
    /\ cl.gap = <<Ticks>> /\ cl.elapsed < request_delay

\* C16: a call of the request operation makes at most 4 outbound attempts, the
\* first and at most 3 retries, whatever the server answers: while it runs
\* fewer than 4 have been made, and it ends either with a response of status
\* below 400 or in failure.
C16_AtMostFourAttempts ==
    cl.pc # "off" =>
        /\ cl.attempts <= 4
        /\ cl.pc = "request" => cl.attempts = cl.attempt /\ cl.attempts <= 3
        /\ cl.pc = "idle" /\ cl.attempts > 0 =>
                IF cl.failed THEN cl.status = 0 \/ cl.status >= 400
                ELSE cl.status > 0 /\ cl.status < 400

\* calls that used all four attempts: one that failed on a last 429 after a
\* transport error, and one whose fourth attempt returned a response
C16_WitnessFailed ==
    cl.pc = "idle" /\ cl.attempts = 4 /\ cl.failed /\ cl.status = 429

C16_Witness ==
    cl.pc = "idle" /\ cl.attempts = 4 /\ ~cl.failed /\ cl.status = 200

\* what a search that found nothing and a detail fetch of an unknown record
\* hand to the caller
EmptyList == [kind |-> "list", id |-> None]

\* C17: when the retries of a search or detail request are exhausted, the
\* caller receives a failure that differs from an empty candidate list and from
\* a not-found result.
C17_ExhaustedRetriesReachCaller ==
    cl.pc = "idle" /\ cl.failed /\ cl.op \in {"search_artists", "get_artist", "get_release"}
        => cl.returned \notin {EmptyList, NoValue}

DetailCalls == { c \in ClientCalls : c.op \in {"get_artist", "get_release"} }

\* C18 as stated: over any sequence of detail fetches, at most one outbound
\* request is made for an entity kind and ID.
C18_AtMostOneRoundTrip ==
    cl.pc # "off" => \A c \in DetailCalls : cl.trips[c] <= 1

\* C18: for an entity kind and ID at most one request is answered with the
\* entity, which is then in the memo table; every later detail fetch of that
\* kind and ID makes no outbound request and returns the memoized entity.
\* Requests that fail memoize nothing.
C18_FetchedOnceThenMemo ==
    cl.pc # "off" =>
        /\ \A c \in DetailCalls :
            /\ cl.fetched[c] <= 1
            /\ cl.fetched[c] = 1 <=> c.key \in DOMAIN mb[CacheTable(c.op)]
            /\ c.key \in DOMAIN mb[CacheTable(c.op)]
                => mb[CacheTable(c.op)][c.key] = Catalogue(CacheTable(c.op))[c.key]
        /\ cl.pc = "idle" /\ cl.was_cached /\ cl.op \in {"get_artist", "get_release"}
            => /\ cl.attempts = 0 /\ ~cl.failed
               /\ cl.returned = [kind |-> "entity", id |-> cl.key]

\* a release fetched on a call that needed a retry, then asked for again
C18_Witness ==
    /\ cl.pc = "idle" /\ cl.op = "get_release" /\ cl.was_cached /\ cl.calls = 3
    /\ cl.trips[[op |-> "get_release", key |-> "rl1"]] = 2

\* C19: once get_cover_art_url has confirmed that a release has no cover art,
\* the miss is held in the memo table and every later get_cover_art_url for the
\* release returns None without an outbound request.
C19_MissIsMemoized ==
    cl.pc # "off" =>
        /\ \A k \in cl.misses : k \in DOMAIN mb.cover_art
        /\ cl.pc = "idle" /\ cl.op = "get_cover_art_url" /\ cl.missed_before
            => cl.attempts = 0 /\ cl.returned = NoValue

\* ---------------------------------------------------------------------------
\* run_sync: the databases, their pages and the three counters (SpecRun)
\* ---------------------------------------------------------------------------

\* the pages of one run, over all its databases
MaxPages == 4

\* a plausible slip: the databases in alphabetical order
Databases_alphabetical == <<"albums", "artists", "labels", "songs">>

\* databases_to_sync = ['artists', 'albums', 'songs', 'labels']
Databases == <<"artists", "albums", "songs", "labels">>

\* the memo table of the entity kind a database's pages store the MBID of
RunTable(db_name) == IF db_name = "albums" THEN "releases" ELSE TableOf(db_name)

\* the outside answers of a run, as (search results, failing MBIDs, write
\* accepted): found and written, found and the write rejected, nothing found
\* while the stored MBID cannot be fetched, nothing found
RunAnswers(found, mbid) ==
    { <<found, {}, TRUE>>, <<found, {}, FALSE>>, <<<<>>, {mbid}, TRUE>>,
      <<<<>>, {}, TRUE>> }

\* the pages and outside answers the handlers are run on during a run
RunArtistCalls ==
    { [page |-> p, env |-> e] :
        p \in { q \in ArtistLabelPages("artists") :
                    /\ q.mbid \in {None, "ar1", GoneId}
                    /\ q.props = PropsOf([k \in RelationFields("artists") |-> <<>>],
                                         [k \in {"title"} |-> "old"]) },
        e \in { f \in ArtistLabelEnvs("artists") :
                    /\ f.loc = "found"
                    /\ <<f.search, f.down, f.accepted>>
                            \in RunAnswers(<<"ar1">>, "ar1") } }

RunLabelCalls ==
    { [page |-> p, env |-> e] :
        p \in { q \in ArtistLabelPages("labels") :
                    /\ q.mbid \in {None, "lb1", GoneId}
                    /\ q.props = PropsOf([k \in RelationFields("labels") |-> <<>>],
                                         [k \in {"title"} |-> "old"]) },
        e \in { f \in ArtistLabelEnvs("labels") :
                    /\ f.loc = "found"
                    /\ <<f.search, f.down, f.accepted>>
                            \in RunAnswers(<<"lb1">>, "lb1") } }

RunSongCalls ==
    { [page |-> p, env |-> e] :
        p \in { q \in SongPages :
                    q.album = None /\ \A k \in RelationFields("songs") :
                                            RelationIds(q.props, k) = {} },
        e \in { f \in SongEnvs :
                    /\ <<f.search, f.down, f.accepted>>
                            \in RunAnswers(<<RecordingStub("rc1")>>, "rc1")
                    /\ f.pages_ok
                    /\ f.artist_page_ids = <<>> } }

RunAlbumCalls ==
    { [page |-> AlbumPage(PabloHoney, m, None, songs, <<>>),
       env |-> AlbumEnv(e[1], <<>>, FALSE, FALSE, <<RecordingStub("rc1")>>, e[2], TRUE,
                        e[3], <<>>)] :
        m \in {None, "f1", GoneId},
        songs \in {[song_mbids |-> <<>>, song_titles |-> <<>>],
                   [song_mbids |-> <<"rc1">>, song_titles |-> <<Creep>>]},
        e \in RunAnswers(<<"f1">>, "f1") }
    \cup
    { [page |-> AlbumPage(NoTitle, m, None,
                          [song_mbids |-> <<>>, song_titles |-> <<>>], <<>>),
       env |-> AlbumEnv(<<>>, <<>>, FALSE, FALSE, <<>>, {}, TRUE, TRUE, <<>>)] :
        m \in {None, "f1"} }

\* the prologue the four handlers share, then the handler of the database:
\* without a title property in the database's mapping nothing is looked at
sync_page(db_name, page, force_all, cache, env, title_mapped) ==
    IF ~title_mapped THEN { Returned("skip", FALSE, page, <<>>, cache) }
    ELSE CASE db_name = "artists" -> sync_artist_page(page, force_all, cache, env)
           [] db_name = "albums"  -> sync_album_page(page, force_all, cache, env)
           [] db_name = "songs"   -> sync_song_page(page, force_all, cache, env)
           [] db_name = "labels"  -> sync_label_page(page, force_all, cache, env)

RunCalls(db_name) ==
    CASE db_name = "artists" -> RunArtistCalls
      [] db_name = "labels"  -> RunLabelCalls
      [] db_name = "songs"   -> RunSongCalls
      [] db_name = "albums"  -> RunAlbumCalls

\* the stored MBID of the page can be obtained: memoized, or held by the
\* catalogue and fetched without failure
StoredFetched(db_name, page, cache, env) ==
    /\ page.mbid # None
    /\ \/ page.mbid \in DOMAIN cache[RunTable(db_name)]
       \/ page.mbid \in DOMAIN Catalogue(RunTable(db_name)) /\ page.mbid \notin env.down

\* the stored release of an album page holds the songs the handler read from
\* the linked pages
StoredHolds(page, env) ==
    LET links == album_links_of(page, env)
    IN  /\ page.mbid \in DOMAIN ReleaseCatalogue
        /\ release_contains_recordings(ReleaseCatalogue[page.mbid], links.song_mbids,
                                       links.song_titles)

NoPage == [titled |-> FALSE]

Zero == [total_pages |-> 0, successful_updates |-> 0, failed_updates |-> 0,
         skipped_updates |-> 0]

\* the flags of the call and the configuration: as shipped, forced, last-page
\* mode, a mapping without title property, an album database without ID
RunConfigs ==
    LET plain == [force_all |-> FALSE, last_page |-> FALSE, title_mapped |-> TRUE,
                  unconfigured |-> {}]
    IN  {plain, [plain EXCEPT !.force_all = TRUE], [plain EXCEPT !.last_page = TRUE],
         [plain EXCEPT !.title_mapped = FALSE],
         [plain EXCEPT !.unconfigured = {"albums"}, !.last_page = TRUE]}

\* run_sync(database, force_all, last_page) is called; title_mapped and
\* unconfigured are the configuration: whether the property mappings name a
\* title property, and the databases without an ID
InitRun ==
    /\ rn \in { [pc |-> "called", database |-> d, force_all |-> c.force_all,
                 last_page |-> c.last_page, title_mapped |-> c.title_mapped,
                 unconfigured |-> c.unconfigured, todo |-> <<>>,
                 db_name |-> None, remaining |-> 0, results |-> Zero,
                 successful |-> 0, failed |-> 0, skipped |-> 0, last |-> NoPage] :
                d \in Range(Databases) \cup {"all", "playlists"}, c \in RunConfigs }
    /\ mb = MbInit /\ lc = LcIdle
    /\ tm = TmIdle /\ mg = MgIdle /\ sy = SyIdle /\ sr = SrIdle /\ cl = ClIdle

\* the head of run_sync: the database name is checked, the counters are zero
RunSync ==
    /\ rn.pc = "called"
    /\ rn' = IF rn.database \notin Range(Databases) \cup {"all"}
             THEN [rn EXCEPT !.pc = "invalid"]
             ELSE [rn EXCEPT !.pc = "databases",
                             !.todo = IF rn.database = "all" THEN Databases
                                      ELSE <<rn.database>>]
    /\ UNCHANGED <<tm, mg, mb, sy, sr, cl, lc>>

\* the next database: passed over when it has no ID or no pages; else its
\* pages (the latest one only in last-page mode) are added to total_pages
NextDatabase ==
    /\ rn.pc = "databases" /\ rn.todo # <<>>
    /\ \E n \in 0..(MaxPages - rn.results.total_pages) :
        LET db_name == Head(rn.todo)
            pages == IF rn.last_page /\ n > 0 THEN 1 ELSE n
        IN  rn' = IF db_name \in rn.unconfigured \/ n = 0
                  THEN [rn EXCEPT !.todo = Tail(@)]
                  ELSE [rn EXCEPT !.pc = "pages", !.db_name = db_name,
                                  !.remaining = pages,
                                  !.results.total_pages = @ + pages,
                                  !.successful = 0, !.failed = 0, !.skipped = 0]
    /\ UNCHANGED <<tm, mg, mb, sy, sr, cl, lc>>

\* a plausible slip: the result is tested for truth, so None counts as failed
Tally_truthy(result) == IF result = "success" THEN <<1, 0, 0>> ELSE <<0, 1, 0>>

\* result is True: successful; is False: failed; anything else: skipped
Tally(result) ==
    IF result = "success" THEN <<1, 0, 0>>
    ELSE IF result = "failure" THEN <<0, 1, 0>> ELSE <<0, 0, 1>>

\* a plausible slip: the loop over the pages is left at the first failure
PagesLeft_fail_fast(remaining, result) ==
    IF result = "failure" THEN 0 ELSE remaining - 1

\* for i, page in enumerate(pages, 1): whatever the result of a page, and also
\* when an exception was caught, the loop goes on with the next page
PagesLeft(remaining, result) == remaining - 1

\* an unexpected exception in a handler that resolved its record (in the
\* formatter or the relation merge; what precedes the resolution are guarded
\* dictionary reads and client calls that catch every exception): the
\* handler's `except Exception` returns False, and an exception that leaves
\* the handler is caught by the loop's own `except Exception`
Raises(o) == IF o.result = "success" THEN BOOLEAN ELSE {FALSE}

\* one pass of the loop over the pages: the handler's result goes to one of
\* successful, failed, skipped; after the last page the three are added to the
\* results and, being dead from then on, are not kept
ProcessPage ==
    /\ rn.pc = "pages" /\ rn.remaining > 0
    /\ \E c \in RunCalls(rn.db_name) :
        \E o \in sync_page(rn.db_name, c.page, rn.force_all, mb, c.env, rn.title_mapped) :
          \E raised \in Raises(o) :
            LET result == IF raised THEN "failure" ELSE o.result
                successful == rn.successful + Tally(result)[1]
                failed == rn.failed + Tally(result)[2]
                skipped == rn.skipped + Tally(result)[3]
                left == PagesLeft(rn.remaining, result)
                last == [titled |-> c.page.title # NoTitle,
                         stored |-> c.page.mbid # None,
                         result |-> result, raised |-> raised,
                         fetched |-> StoredFetched(rn.db_name, c.page, mb, c.env),
                         holds |-> rn.db_name = "albums" => StoredHolds(c.page, c.env),
                         counted |-> <<successful - rn.successful, failed - rn.failed,
                                       skipped - rn.skipped>>]
            IN  /\ rn' = IF left > 0
                         THEN [rn EXCEPT !.remaining = left, !.successful = successful,
                                         !.failed = failed, !.skipped = skipped,
                                         !.last = last]
                         ELSE [rn EXCEPT !.pc = "databases", !.todo = Tail(@),
                                         !.db_name = None, !.remaining = 0,
                                         !.successful = 0, !.failed = 0, !.skipped = 0,
                                         !.last = last,
                                         !.results.successful_updates = @ + successful,
                                         !.results.failed_updates = @ + failed,
                                         !.results.skipped_updates = @ + skipped]
                /\ mb' = o.cache
    /\ UNCHANGED <<tm, mg, sy, sr, cl, lc>>

\* no database is left: the results are returned
ReturnResults ==
    /\ rn.pc = "databases" /\ rn.todo = <<>>
    /\ rn' = [rn EXCEPT !.pc = "done"]
    /\ UNCHANGED <<tm, mg, mb, sy, sr, cl, lc>>

NextRun == RunSync \/ NextDatabase \/ ProcessPage \/ ReturnResults

SpecRun == InitRun /\ [][NextRun]_vars

Skipped == <<0, 0, 1>>

\* every page is counted once, and the run's counters add up to total_pages
CountersAddUp ==
    /\ rn.pc = "done" =>
            rn.results.successful_updates + rn.results.failed_updates
                + rn.results.skipped_updates = rn.results.total_pages
    /\ rn.pc \in {"pages", "databases", "done"} /\ rn.last # NoPage =>
            rn.last.counted \in {<<1, 0, 0>>, <<0, 1, 0>>, Skipped}
    /\ rn.pc = "pages" =>
            rn.results.successful_updates + rn.results.failed_updates
                + rn.results.skipped_updates + rn.successful + rn.failed
                + rn.skipped + rn.remaining = rn.results.total_pages

RunHasPage == rn.pc \in {"pages", "databases", "done"} /\ rn.last # NoPage

NoAsciiAlnum(title) == \A i \in DOMAIN title : title[i] \notin AsciiAlnum

\* C30: titlesMatchExactly(a, b) is true whenever both titles normalize to the
\* empty word sequence and false whenever exactly one of them does: two titles
\* with no ASCII letter or digit (empty, punctuation-only, non-Latin script)
\* are an exact match of each other, and such a title never matches a title
\* that has an ASCII alphanumeric word.
C30_WordlessTitlesMatchEachOther ==
    tm.pc = "done" =>
        /\ (tm.words1 = <<>>) = NoAsciiAlnum(tm.title1)
        /\ (tm.words2 = <<>>) = NoAsciiAlnum(tm.title2)
        /\ (NoAsciiAlnum(tm.title1) /\ NoAsciiAlnum(tm.title2) => tm.result)
        /\ (NoAsciiAlnum(tm.title1) # NoAsciiAlnum(tm.title2) => ~tm.result)

C30_Witness ==
    /\ tm.pc = "done"
    /\ tm.title1 = Micro
    /\ tm.title2 = Ellipsis
    /\ tm.words1 = <<>>
    /\ tm.result

(***************************************************************************)
(* C27: the waits of a request that keeps receiving 429                     *)
(***************************************************************************)
\* every response of the call so far had status 429
Only429 == cl.pc # "off" /\ cl.attempts >= 1 /\ cl.limited = cl.attempts

InTicks(units) == [i \in DOMAIN units |-> units[i] * Ticks]

\* C27 as stated: when a request keeps receiving HTTP 429, the waits before
\* its successive retries follow the schedule 2, 3, 5, 9 time units, one wait
\* after each 429 response.
C27_WaitsTwoThreeFiveNine ==
    Only429 => cl.waits = SubSeq(InTicks(<<2, 3, 5, 9>>), 1, cl.attempts)

\* C27 amended: when a request keeps receiving HTTP 429, the waits before its
\* three retries are 2, 3 and 5 time units; the fourth 429 response ends the
\* request as a failure with no further wait, so no wait of 9 units occurs.
C27_WaitsTwoThreeFive ==
    Only429 =>
        /\ cl.attempts <= 4
        /\ cl.waits = SubSeq(InTicks(<<2, 3, 5>>), 1, Min(cl.attempts, 3))
        /\ (cl.attempts = 4 => cl.pc = "idle" /\ cl.failed)
        /\ (cl.attempts < 4 => cl.pc = "request")

C27_Witness ==
    /\ Only429
    /\ cl.attempts = 4
    /\ cl.waits = InTicks(<<2, 3, 5>>)
    /\ cl.failed

\* ---------------------------------------------------------------------------
\* The promotion of the top candidates (SpecTop): one album resolution, or one
\* best-release selection for a song over a long release list
\* ---------------------------------------------------------------------------

\* release lists of a recording with more than TopCandidates releases
LongRankLists ==
    { [i \in DOMAIN ids |-> ReleaseStub(ids[i], FALSE)] :
        ids \in { <<"rl1", "rl2">> \o Fillers(MaxFillers),
                  Fillers(MaxFillers) \o <<"rl3", "rl1">>,
                  Fillers(MaxFillers - 1), Fillers(1) } }

InitTop ==
    /\ tm = TmIdle /\ mg = MgIdle /\ mb = MbInit /\ lc = LcIdle /\ cl = ClIdle /\ rn = RnIdle
    /\ \/ sy = Syncing("albums") /\ sr = SrIdle
       \/ /\ sy = SyIdle
          /\ sr \in { [pc |-> "given", releases |-> l, down |-> d] :
                          l \in LongRankLists, d \in {{}, {"rl3"}, {"f2"}} }

NextTop == GetRelease \/ SyncAlbumPage \/ FindBestRelease

SpecTop == InitTop /\ [][NextTop]_vars

\* the requests for the detail of a release among the requests of a call
ReleaseFetches(requests) ==
    { i \in DOMAIN requests : requests[i][1] = "get" /\ requests[i][2] = "releases" }

\* the fetch of the page's stored release, which precedes the resolution
StoredFetches == IF sy.mbid # None /\ ~sy.memoized THEN 1 ELSE 0

\* C26: in one album resolution, and in one best-release selection for a
\* song, at most 10 release detail fetches are requested for re-scoring, for
\* any number of title-matching candidates: only the 10 best candidates of
\* the first, search-level ranking are promoted.
C26_AtMostTenPromoted ==
    /\ sy.pc = "done" /\ sy.kind = "albums" =>
          /\ Cardinality(ReleaseFetches(sy.requests)) - StoredFetches <= 10
          /\ Len(sy.ranked) <= 10
          /\ sy.searched =>
                LET promoted == Range(MatchingIds) \cup {sy.mbid}
                IN  \A i \in ReleaseFetches(sy.requests) :
                        sy.requests[i][3] \in promoted
    /\ sr.pc = "ranked" =>
          /\ Cardinality(ReleaseFetches(sr.requests)) <= 10
          /\ Len(sr.top) <= 10
          /\ \A i \in ReleaseFetches(sr.requests) :
                \E k \in 1..Min(10, Len(sr.sorted)) :
                    sr.sorted[k].release.id = sr.requests[i][3]

C26_Witness ==
    /\ sr.pc = "ranked"
    /\ Len(sr.releases) = 12
    /\ Len(sr.sorted) = 12
    /\ Cardinality(ReleaseFetches(sr.requests)) = 10
    /\ Len(sr.top) = 10

C26_WitnessAlbum ==
    /\ sy.pc = "done" /\ sy.kind = "albums" /\ sy.searched
    /\ Len(MatchingIds) = 12
    /\ Cardinality(ReleaseFetches(sy.requests)) = 10

(***************************************************************************)
(* C25: the fetch of a stored MBID fails on the network                     *)
(***************************************************************************)
\* the page's stored MBID names an entity MusicBrainz holds, the client has
\* not memoized it and the request for it fails through all retries
StoredFetchFailed ==
    /\ sy.pc = "done" /\ sy.kind \in {"artists", "labels", "songs"}
    /\ sy.title # NoTitle /\ sy.mbid # None
    /\ sy.mbid \in DOMAIN Catalogue(TableOf(sy.kind))
    /\ ~sy.memoized /\ sy.mbid \in sy.down

\* C25: a transient network error that persists through all retries while
\* fetching the detail of a record's stored external ID surfaces as a fetch
\* failure for that one record: the record is counted as a failure, it is not
\* re-resolved by a name search, and its stored external ID is not replaced.
C25_StoredFetchFailureIsFailure ==
    StoredFetchFailed =>
        /\ sy.result = "failure"
        /\ ~sy.searched
        /\ \A i \in DOMAIN sy.requests : ~IsSearchRequest(sy.requests[i])
        /\ sy.after = sy.before

\* the case the program reaches instead: the record is resolved again by a
\* name search and written with another MBID than the stored one
C25_StoredIdReplaced ==
    /\ StoredFetchFailed
    /\ sy.searched /\ sy.result = "success"
    /\ sy.after["musicbrainz_id"] # Txt(sy.mbid)

(***************************************************************************)
(* C23: the steps of one record                                             *)
(***************************************************************************)
\* C23: each record goes from its title to one of skipped, resolution failed
\* or resolved, then formatted and written: the write-back to the record's own
\* page is attempted at most once per sync of the record, only after the
\* record is resolved and formatted; a record that ends skipped or with a
\* failed resolution causes no write of any page; a rejected write ends as
\* a failure, with no retry.
C23_OneWriteAfterResolution ==
    sy.pc = "done" =>
        /\ sy.writes <= 1
        /\ sy.wrote = (sy.writes = 1)
        /\ sy.result \in {"skip", "failure", "success"}
        /\ sy.title = NoTitle => sy.result = "skip" /\ sy.requests = <<>>
        /\ sy.wrote =>
              /\ sy.title # NoTitle
              /\ sy.data_id # None
              /\ sy.new_properties # Empty
              /\ sy.result \in {"success", "failure"}
        /\ (sy.result = "skip" \/ (sy.result = "failure" /\ ~sy.rejected)) =>
              /\ sy.writes = 0
              /\ sy.after = sy.before
              /\ sy.new_properties = Empty /\ sy.written = Empty
              /\ sy.kind \in {"artists", "labels"} => sy.loc = None
        /\ sy.rejected =>
              /\ sy.result = "failure" /\ sy.writes = 1 /\ sy.after = sy.before
        /\ sy.result = "success" =>
              /\ sy.writes = 1 /\ ~sy.rejected
              /\ sy.after = update_page(sy.before, sy.written)

C23_Witness ==
    /\ sy.pc = "done" /\ sy.kind = "songs"
    /\ sy.rejected /\ sy.writes = 1
    /\ sy.result = "failure"
    /\ sy.data_id # None /\ sy.new_properties # Empty

(***************************************************************************)
(* C21: a failed page does not end the run                                  *)
(***************************************************************************)
\* run_sync as it is scheduled: the interpreter goes on while a step is left
SpecRunFair == SpecRun /\ WF_vars(NextRun)

\* a page that failed is counted once, as a failure
FailureCountedOnce ==
    RunHasPage =>
        /\ (rn.last.result = "failure") = (rn.last.counted = <<0, 1, 0>>)
        /\ rn.last.raised => rn.last.result = "failure"

\* whatever the outcome of a page, the loop goes on with the next page of the
\* database, and after the last page with the next database
LoopGoesOn ==
    rn.pc = "pages" =>
        \/ rn.remaining > 1 /\ rn'.pc = "pages" /\ rn'.remaining = rn.remaining - 1
              /\ rn'.todo = rn.todo
        \/ rn.remaining = 1 /\ rn'.pc = "databases" /\ rn'.todo = Tail(rn.todo)

\* C21: no per-record error (fetch failure, not-found, no exact match,
\* rejected write, or an unexpected exception while syncing a page) aborts the
\* run: every page of every configured database is still processed after an
\* earlier page failed, each such error is counted as one failure for that
\* record only, and the run ends by reporting the aggregate counters.
C21_FailuresDoNotAbort ==
    /\ [](CountersAddUp /\ FailureCountedOnce)
    /\ [][LoopGoesOn]_vars
    /\ <>(rn.pc \in {"done", "invalid"})

\* a run that went on after two failures, one of them an exception, and
\* reported them
C21_Witness ==
    /\ rn.pc = "done" /\ rn.database = "all"
    /\ rn.results.total_pages = MaxPages
    /\ rn.results.failed_updates >= 2
    /\ rn.results.successful_updates >= 1
    /\ rn.last.result = "success"

C21_WitnessRaised ==
    /\ rn.pc = "pages" /\ rn.remaining > 0 /\ rn.last # NoPage
    /\ rn.last.raised /\ rn.failed >= 1

(***************************************************************************)
(* C22: the order of databases and pages                                    *)
(***************************************************************************)
IsSuffix(s, t) ==
    Len(s) <= Len(t) /\ s = SubSeq(t, Len(t) - Len(s) + 1, Len(t))

\* the outcomes a page ends with
Terminal == {"success", "failure", "skip"}

\* the databases still to do are a tail of artists, albums, songs, labels, and
\* the pages being processed are those of the first of them
InOrder ==
    /\ rn.pc \in {"databases", "pages"} /\ rn.database = "all" =>
            IsSuffix(rn.todo, <<"artists", "albums", "songs", "labels">>)
    /\ rn.pc = "pages" => rn.todo # <<>> /\ rn.db_name = Head(rn.todo) /\ rn.remaining >= 1
    /\ rn.pc = "databases" => rn.remaining = 0 /\ rn.db_name = None

\* a step on a page brings that one page to its outcome and leaves the run in
\* the same database or, after its last page, at the next one; a database is
\* begun only when no page of the one before is left
OneAtATime ==
    /\ rn.pc = "pages" =>
            /\ rn'.last.result \in Terminal
            /\ rn'.pc = "pages" => rn'.db_name = rn.db_name /\ rn'.todo = rn.todo
                                       /\ rn'.remaining = rn.remaining - 1
            /\ rn'.pc # "pages" => rn.remaining = 1 /\ rn'.pc = "databases"
                                       /\ rn'.todo = Tail(rn.todo)
    /\ rn.pc = "databases" =>
            /\ Len(rn'.todo) <= Len(rn.todo)
            /\ rn'.pc = "pages" => rn'.db_name = Head(rn.todo) /\ rn'.todo = rn.todo

\* C22: when running "all", the databases are processed strictly in the order
\* artists, albums, songs, labels, and pages are processed one at a time: no
\* operation for a page begins before the previous page has reached its
\* terminal outcome, and no page of a later database is processed before every
\* page of the earlier databases has finished.
C22_DatabasesInOrderPagesInTurn ==
    []InOrder /\ [][OneAtATime]_vars

\* a run over all databases at a page of the last one, a page of each of the
\* three before it having finished
C22_Witness ==
    /\ rn.pc = "pages" /\ rn.database = "all" /\ rn.db_name = "labels"
    /\ rn.todo = <<"labels">>
    /\ rn.results.successful_updates + rn.results.failed_updates
            + rn.results.skipped_updates = 3
    /\ rn.results.total_pages = 4

\* ---------------------------------------------------------------------------
\* The Locations database and the location cache (SpecLocations)
\* ---------------------------------------------------------------------------

\* the calls of _find_or_create_location_page followed in one run
MaxLocCalls == 3

Oxford      == <<"O", "x">>
OxfordLower == <<"o", "x">>
Leeds       == <<"L", "e">>

LocationNames == {Oxford, OxfordLower, Leeds}

\* the identifiers Notion gives to the pages created, in order
NewPageIds == <<"n1", "n2", "n3", "n4", "n5">>

\* a page of the Locations database; an untitled page has the empty title
LocationRecord(id, title) == [id |-> id, title |-> title]

\* the Locations database before the run: empty, one page, an untitled page
\* followed by two pages
LocationDatabases ==
    { <<>>,
      <<LocationRecord("l1", Oxford)>>,
      <<LocationRecord("l0", <<>>), LocationRecord("l1", OxfordLower),
        LocationRecord("l2", Leeds)>> }

\* NotionAPI.query_database: the pages of the database, and [] when the
\* request fails
query_database(db, query_ok) == IF query_ok THEN db ELSE <<>>

\* the key of the property of type 'title' of the first page returned (every
\* page of a database carries the title property of its database)
TitleKeyOf(all_pages, title_key) ==
    IF all_pages # <<>> THEN "Name" ELSE title_key

\* the dictionary built by the loop over all_pages: a later page replaces an
\* earlier one with the same lower-cased title; untitled pages are passed over
RECURSIVE CacheOfPages(_, _, _)
CacheOfPages(all_pages, i, cache) ==
    IF i > Len(all_pages) THEN cache
    ELSE LET page == all_pages[i]
             key == LowerStr(page.title)
         IN  CacheOfPages(all_pages, i + 1,
                          IF page.title = <<>> THEN cache
                          ELSE [k \in DOMAIN cache \cup {key} |->
                                    IF k = key THEN page.id ELSE cache[k]])

\* _load_locations_cache: s holds locations_db_id, loaded (_location_cache is
\* not None), cache (_location_cache) and title_key (_locations_title_key)
load_locations_cache(s, query_ok) ==
    IF s.locations_db_id = None \/ s.loaded THEN s
    ELSE LET all_pages == query_database(s.db, query_ok)
             title_key == TitleKeyOf(all_pages, s.title_key)
         IN  IF title_key = None
             THEN [s EXCEPT !.loaded = TRUE, !.cache = <<>>]
             ELSE [s EXCEPT !.loaded = TRUE, !.title_key = title_key,
                            !.cache = CacheOfPages(all_pages, 1, <<>>)]

\* location_name_lower = location_name.lower()
cache_key(location_name) == LowerStr(location_name)

\* _find_or_create_location_page(location_name): the state after the call,
\* what it returned and whether it created a page; load_ok, query_ok and
\* create_ok say whether the requests to Notion succeed
find_or_create_location_page(s, location_name, load_ok, query_ok, create_ok) ==
    IF s.locations_db_id = None
    THEN [state |-> s, returned |-> None, created |-> FALSE]
    ELSE
    LET s1 == load_locations_cache(s, load_ok)
        location_name_lower == cache_key(location_name)
        title_key == IF s1.title_key = None
                     THEN TitleKeyOf(query_database(s1.db, query_ok), None)
                     ELSE s1.title_key
        s2 == [s1 EXCEPT !.title_key = title_key]
        new_page_id == NewPageIds[Len(s.created) + 1]
    IN  IF location_name_lower \in DOMAIN s1.cache
        THEN [state |-> s1, returned |-> s1.cache[location_name_lower],
              created |-> FALSE]
        ELSE IF title_key = None
        THEN [state |-> s2, returned |-> None, created |-> FALSE]
        ELSE IF ~create_ok
        THEN [state |-> s2, returned |-> None, created |-> FALSE]
        ELSE [state |->
                [s2 EXCEPT
                    !.db = Append(@, LocationRecord(new_page_id, location_name)),
                    !.created = Append(@, LocationRecord(new_page_id, location_name)),
                    !.cache = [k \in DOMAIN @ \cup {location_name_lower} |->
                                  IF k = location_name_lower THEN new_page_id
                                  ELSE @[k]]],
              returned |-> new_page_id, created |-> TRUE]

NoCall == [name |-> <<>>]

\* after construction: the cache is not loaded and no title key is known;
\* before: the lower-cased titles the database held when the run began;
\* load_failed: the query of _load_locations_cache was not answered;
\* answers: the identifiers returned so far, per lower-cased name
InitLocations ==
    /\ lc \in { [pc |-> "run", locations_db_id |-> id, db |-> db, loaded |-> FALSE,
                 cache |-> <<>>, title_key |-> None, created |-> <<>>,
                 before |-> { LowerStr(db[i].title) : i \in DOMAIN db } \ {<<>>},
                 load_failed |-> FALSE,
                 answers |-> [n \in {} |-> {}], calls |-> 0, last |-> NoCall] :
                id \in {None, "locations"}, db \in LocationDatabases }
    /\ tm = TmIdle /\ mg = MgIdle /\ mb = MbInit /\ sy = SyIdle
    /\ sr = SrIdle /\ cl = ClIdle /\ rn = RnIdle

\* run_sync, before the pages of the artists or labels database: the cache is
\* loaded (the call returns at once when it is loaded already)
LoadLocationsCache ==
    /\ lc.pc = "run" /\ lc.locations_db_id # None /\ ~lc.loaded
    /\ \E query_ok \in BOOLEAN :
          lc' = [load_locations_cache(lc, query_ok) EXCEPT !.load_failed = ~query_ok]
    /\ UNCHANGED <<tm, mg, mb, sy, sr, cl, rn>>

\* a formatter calls _find_or_create_location_page(location_name)
FindOrCreateLocationPage ==
    /\ lc.pc = "run" /\ lc.calls < MaxLocCalls
    /\ \E location_name \in LocationNames, load_ok \in BOOLEAN, query_ok \in BOOLEAN,
          create_ok \in BOOLEAN :
        LET r == find_or_create_location_page(lc, location_name, load_ok, query_ok,
                                              create_ok)
            key == LowerStr(location_name)
            present == \E i \in DOMAIN lc.db : LowerStr(lc.db[i].title) = key
        IN  lc' = [r.state EXCEPT
                    !.calls = @ + 1,
                    !.load_failed = IF lc.locations_db_id # None /\ ~lc.loaded
                                    THEN ~load_ok ELSE @,
                    !.answers = [n \in DOMAIN @ \cup {key} |->
                                    (IF n \in DOMAIN @ THEN @[n] ELSE {})
                                        \cup (IF n = key THEN {r.returned} ELSE {})],
                    !.last = [name |-> location_name, returned |-> r.returned,
                              created |-> r.created, present |-> present,
                              empty |-> lc.db = <<>>,
                              requests_ok |-> load_ok /\ query_ok /\ create_ok]]
    /\ UNCHANGED <<tm, mg, mb, sy, sr, cl, rn>>

NextLocations == LoadLocationsCache \/ FindOrCreateLocationPage

SpecLocations == InitLocations /\ [][NextLocations]_vars

\* the pages created in the run under a lower-cased name
CreatedAs(key) == { i \in DOMAIN lc.created : LowerStr(lc.created[i].title) = key }

\* C24: location find-or-create is idempotent and case-insensitive: over any
\* sequence of calls in one run, two calls whose names are equal after
\* lower-casing return the same location identifier, and at most one
\* LocationRecord is created per lower-cased name (a name already present in
\* the Locations database is never created again).
C24_FindOrCreateIdempotent ==
    lc.pc = "run" =>
        /\ \A key \in DOMAIN lc.answers : Cardinality(lc.answers[key] \ {None}) <= 1
        /\ \A i \in DOMAIN lc.created :
              /\ Cardinality(CreatedAs(LowerStr(lc.created[i].title))) <= 1
              /\ LowerStr(lc.created[i].title) \notin lc.before

\* the case the program reaches: a page is created under a name the database
\* held before the run
C24_CreatedAgain ==
    /\ lc.pc = "run" /\ lc.created # <<>>
    /\ LowerStr(lc.created[1].title) \in lc.before

\* when the query that loads the cache was answered, the calls of the run are
\* idempotent
IdempotentWhenLoadAnswered == ~lc.load_failed => C24_FindOrCreateIdempotent

\* C29: when the Locations database is configured and page creation succeeds,
\* find-or-create for a name not yet present creates one LocationRecord and
\* returns its identifier, also when the Locations database holds no pages at
\* the time of the call.
C29_AbsentNameIsCreated ==
    lc.pc = "run" /\ lc.last # NoCall /\ lc.locations_db_id # None
        /\ lc.last.requests_ok /\ ~lc.last.present
        => /\ lc.last.created
           /\ lc.last.returned # None
           /\ \E i \in DOMAIN lc.db :
                 lc.db[i].id = lc.last.returned /\ lc.db[i].title = lc.last.name

\* the case that fails: the database holds no pages
C29_EmptyDatabaseCreatesNothing ==
    /\ lc.pc = "run" /\ lc.last # NoCall /\ lc.locations_db_id # None
    /\ lc.last.requests_ok /\ lc.last.empty
    /\ ~lc.last.created /\ lc.last.returned = None /\ lc.db = <<>>

\* ---------------------------------------------------------------------------
\* The album part of _format_song_properties and the memoized recording
\* (SpecMemo)
\* ---------------------------------------------------------------------------

\* the songs formatted in one run
MaxFormats == 3

\* what search_releases(song_title, artist_name, limit=50) may answer
SupplementarySearches ==
    { [i \in DOMAIN ids |-> [ReleaseCatalogue[ids[i]] EXCEPT !.tracks = {}]] :
        ids \in { <<>>, <<"f1">>, <<"rl1", "f1">>, <<"f2", "f2">>, <<"rl3">>,
                  <<"rl2", "rl4">>, <<"f3", "f1">>, <<"f4">> } }

\* the list `releases` after the supplementary search: the results whose id is
\* not among the ids the list had before the loop are appended to it
extended_releases(recording_data, search_results) ==
    LET releases == recording_data.releases
        few == Len(releases) < 5
                 \/ ~\E i \in DOMAIN releases : releases[i].country # None
        existing_ids == { releases[i].id : i \in DOMAIN releases }
    IN  IF few /\ recording_data.title # <<>> /\ recording_data.artist # None
        THEN releases \o SelectSeq(search_results,
                                   LAMBDA result : result.id # None
                                                   /\ result.id \notin existing_ids)
        ELSE releases

\* `releases` is the list object held by recording_data, which is the object
\* held by the memo table: appending to it changes the memoized recording
AliasedAppend(cache, recording_id, releases) ==
    IF recording_id \in DOMAIN cache.recordings
    THEN [cache EXCEPT !.recordings[recording_id].releases = releases]
    ELSE cache

\* the album part of _format_song_properties(recording_data): the release list
\* is extended and the best release is selected
format_song_album(recording_data, search_results, cache, down) ==
    LET releases == extended_releases(recording_data, search_results)
        cache1 == AliasedAppend(cache, recording_data.id, releases)
        b == find_best_release_for_song(releases, cache1, down)
    IN  [releases |-> releases, best_release |-> b.release.id,
         requests |-> b.requests, cache |-> b.cache]

\* nothing is memoized; first: per table and MBID, the value get_* stored
InitMemo ==
    /\ sy \in { [pc |-> "songs", album_mapped |-> m, formats |-> 0,
                 first |-> <<>>, recording |-> None, returned |-> NoData,
                 best_release |-> None] : m \in BOOLEAN }
    /\ tm = TmIdle /\ mg = MgIdle /\ mb = MbInit /\ lc = LcIdle
    /\ sr = SrIdle /\ cl = ClIdle /\ rn = RnIdle

\* the values memoized by a step, with the table and MBID they are stored under
FirstStored(first, before, after) ==
    LET new == { <<t, k>> : t \in {"recordings", "releases"},
                            k \in DOMAIN ReleaseCatalogue \cup DOMAIN RecordingCatalogue }
        added == { e \in new : e[2] \in DOMAIN after[e[1]] /\ e[2] \notin DOMAIN before[e[1]] }
    IN  [e \in DOMAIN first \cup added |->
            IF e \in DOMAIN first THEN first[e] ELSE Catalogue(e[1])[e[2]]]

\* sync_song_page from get_recording on: the recording is obtained and, when
\* the album property is mapped, its album is selected
FormatSong ==
    /\ sy.pc = "songs" /\ sy.formats < MaxFormats
    /\ \E mbid \in DOMAIN RecordingCatalogue, search_results \in SupplementarySearches,
          down \in {{}, {"rl1"}} :
        \E g \in {get_entity("recordings", mbid, mb, {})} :
        \E f \in {IF sy.album_mapped
                  THEN format_song_album(g.data, search_results, g.cache, down)
                  ELSE [releases |-> g.data.releases, best_release |-> None,
                        requests |-> <<>>, cache |-> g.cache]} :
            /\ sy' = [sy EXCEPT !.formats = @ + 1, !.recording = mbid,
                                !.returned = g.data,
                                !.first = FirstStored(@, mb, f.cache),
                                !.best_release = f.best_release]
            /\ mb' = f.cache
    /\ UNCHANGED <<tm, mg, sr, cl, rn, lc>>

NextMemo == FormatSong

SpecMemo == InitMemo /\ [][NextMemo]_vars

\* C28: once a remote entity is stored in a memoization table its content never
\* changes for the lifetime of the client: after any sequence of sync
\* operations the detail fetch for an ID returns a value equal to the one first
\* stored for it; in particular formatting a song, which extends the
\* recording's release list with supplementary search results, leaves the
\* memoized recording, release list included, unchanged.
C28_MemoizedNeverChanges ==
    sy.pc = "songs" =>
        /\ \A e \in DOMAIN sy.first :
              e[2] \in DOMAIN mb[e[1]] /\ mb[e[1]][e[2]] = sy.first[e]
        /\ sy.recording # None =>
              sy.returned = sy.first[<<"recordings", sy.recording>>]

\* the case the program reaches: the memoized recording has a longer release
\* list than the one stored, and a later get_recording returns it
C28_MemoizedRecordingGrew ==
    /\ sy.pc = "songs" /\ sy.formats = 2 /\ sy.recording = "rc1"
    /\ Len(sy.first[<<"recordings", "rc1">>].releases) = 4
    /\ Len(sy.returned.releases) = 5
    /\ sy.returned.releases[5].id = "f1"
    /\ Len(mb.recordings["rc1"].releases) >= 5

====
